---- MODULE Spec2Model ----
(***************************************************************************)
(* Model of iterator-plumbing: the synchronous streams of src/src/stream.js *)
(* (lines 1-551) and the asynchronous streams of src/src/asyncstream.js     *)
(* (lines 1-476).  A stream is a tree of producers; every producer keeps    *)
(* its own fields (index, upstream, inner).  next(s) is one pull: it gives  *)
(* the producer after the pull, the done flag and the value.                *)
(***************************************************************************)
EXTENDS Integers, Sequences, FiniteSets

\* Longest source array handed to Stream.from / AsyncStream.from.
MaxLen == 3
\* Largest number of chained intermediate operations on one stream.
MaxOps == 1
\* Longest array of [key, value] pairs handed to Stream.from / AsyncStream.from.
MaxPairs == 2

(***************************************************************************)
(* JavaScript values.  t is the type tag, n the number, a the array        *)
(* elements, s the characters of a string.                                  *)
(***************************************************************************)
Num(n) == [t |-> "number", n |-> n, a |-> <<>>, s |-> ""]
NaN == [t |-> "NaN", n |-> 0, a |-> <<>>, s |-> ""]
Undefined == [t |-> "undefined", n |-> 0, a |-> <<>>, s |-> ""]
Null == [t |-> "null", n |-> 0, a |-> <<>>, s |-> ""]
Bool(b) == [t |-> "boolean", n |-> IF b THEN 1 ELSE 0, a |-> <<>>, s |-> ""]
Str(s) == [t |-> "string", n |-> 0, a |-> <<>>, s |-> s]
StringObject(s) == [t |-> "String", n |-> 0, a |-> <<>>, s |-> s]
Arr(a) == [t |-> "array", n |-> 0, a |-> a, s |-> ""]
Obj == [t |-> "object", n |-> 0, a |-> <<>>, s |-> ""]

\* if (v) ...
Truthy(v) ==
    CASE v.t = "number" -> v.n # 0
      [] v.t = "boolean" -> v.n = 1
      [] v.t = "string" -> v.s # ""
      [] v.t \in {"NaN", "undefined", "null"} -> FALSE
      [] v.t \in {"array", "object", "String"} -> TRUE

Digit(d) == <<"0", "1", "2", "3", "4", "5", "6", "7", "8", "9">>[d + 1]

RECURSIVE NatToString(_)
NatToString(n) == IF n < 10 THEN Digit(n) ELSE NatToString(n \div 10) \o Digit(n % 10)

\* Number(s) of a string: 0 for the empty string, the number a decimal
\* numeral without sign or leading zeros writes (the numerals of this model
\* are below 100), NaN for a name.
StringToNumber(s) ==
    IF s = "" THEN Num(0)
    ELSE IF \E n \in 0..99 : NatToString(n) = s
         THEN Num(CHOOSE n \in 0..99 : NatToString(n) = s)
         ELSE NaN

\* Number(v), as the arithmetic and relational operators apply it.
RECURSIVE ToNumber(_)
ToNumber(v) ==
    CASE v.t = "number" -> v
      [] v.t = "NaN" -> NaN
      [] v.t = "undefined" -> NaN
      [] v.t = "null" -> Num(0)
      [] v.t = "boolean" -> Num(v.n)
      [] v.t = "object" -> NaN
      [] v.t \in {"string", "String"} -> StringToNumber(v.s)
      [] v.t = "array" ->
            IF Len(v.a) = 0 THEN Num(0)
            ELSE IF Len(v.a) = 1
                 THEN IF v.a[1].t \in {"undefined", "null"} THEN Num(0) ELSE ToNumber(v.a[1])
                 ELSE NaN

\* String(v), as new String(v) and string += v apply it.
RECURSIVE ToString(_)
RECURSIVE ArrayJoin(_, _)
ArrayJoin(a, i) ==
    IF i > Len(a) THEN ""
    ELSE (IF i > 1 THEN "," ELSE "")
         \o (IF a[i].t \in {"undefined", "null"} THEN "" ELSE ToString(a[i]))
         \o ArrayJoin(a, i + 1)
ToString(v) ==
    CASE v.t = "number" -> IF v.n < 0 THEN "-" \o NatToString(-v.n) ELSE NatToString(v.n)
      [] v.t = "NaN" -> "NaN"
      [] v.t = "undefined" -> "undefined"
      [] v.t = "null" -> "null"
      [] v.t = "boolean" -> IF v.n = 1 THEN "true" ELSE "false"
      [] v.t \in {"string", "String"} -> v.s
      [] v.t = "object" -> "[object Object]"
      [] v.t = "array" -> ArrayJoin(v.a, 1)

\* x + y: both operands are made primitive; if either is then a string the
\* result is the concatenation of their strings, else the sum of their numbers.
ToPrimitive(v) == IF v.t \in {"array", "object", "String"} THEN Str(ToString(v)) ELSE v

Plus(x, y) ==
    LET px == ToPrimitive(x)
        py == ToPrimitive(y)
    IN  IF px.t = "string" \/ py.t = "string"
        THEN Str(ToString(px) \o ToString(py))
        ELSE LET nx == ToNumber(px)
                 ny == ToNumber(py)
             IN  IF nx.t = "NaN" \/ ny.t = "NaN" THEN NaN ELSE Num(nx.n + ny.n)

(***************************************************************************)
(* The callbacks the tests and the README hand to the streams.              *)
(***************************************************************************)
Pred(name, begin, end) == [name |-> name, begin |-> begin, end |-> end]

\* x === y.  Two arrays or two objects are identical when they are the same
\* object; the item a search is handed is a literal of its own, so it is
\* identical to no element of that kind.
StrictEquals(x, y) ==
    /\ x.t = y.t
    /\ x.t \notin {"NaN", "array", "object", "String", "Map"}
    /\ x = y

\* e => e === item
Same(item) == [name |-> "same", begin |-> 0, end |-> 0, item |-> item]

\* An invocation of a callback, by what it was handed.
Call(value, index, context) == [value |-> value, index |-> index, context |-> context]

\* The error a predicate throws on value, "none" when it returns:
\* e => { if (e === 2) throw new Error(); return true; }
PredicateThrown(p, value) ==
    IF p.name = "throwsOn2" /\ StrictEquals(value, Num(2)) THEN "Error" ELSE "none"

\* predicate(value, index, context)
CallPredicate(p, value, index, context) ==
    CASE p.name = "even" ->                     \* a => a % 2 === 0
            LET x == ToNumber(value) IN x.t = "number" /\ x.n % 2 = 0
      [] p.name = "gt1" ->                      \* e => e > 1
            LET x == ToNumber(value) IN x.t = "number" /\ x.n > 1
      [] p.name = "sliceTo" ->                  \* (e,i) => begin <= i && i < end
            p.begin <= index /\ index < p.end
      [] p.name = "sliceFrom" ->                \* (e,i) => begin <= i
            p.begin <= index
      [] p.name = "same" -> StrictEquals(value, p.item)
      [] p.name = "throwsOn2" -> TRUE

\* The error a mapper throws on value, "none" when it returns:
\* e => { if (e === 2) throw new Error(); return e; }
MapperThrown(m, value) ==
    IF m = "throwsOn2" /\ StrictEquals(value, Num(2)) THEN "Error" ELSE "none"

\* mapper(value, index, context)
CallMapper(m, value, index, context) ==
    CASE m = "times7" ->                        \* a => a * 7
            LET x == ToNumber(value) IN IF x.t = "number" THEN Num(x.n * 7) ELSE NaN
      [] m = "entries" -> Arr(<<Num(index), value>>)   \* (e,i) => [i,e]
      [] m = "throwsOn2" -> value

\* callback(accumulator, value, index, context) of reduce
CallReducer(callback, accumulator, value, index, context) ==
    CASE callback = "sum" -> Plus(accumulator, value)      \* (v,e) => v+e

(***************************************************************************)
(* Synchronous producers (src/src/stream.js).  Besides the fields of the    *)
(* class, a producer records what it has done: pulled counts its calls of   *)
(* next() on its upstream, calls lists the invocations of its callback.     *)
(***************************************************************************)
NoStream == [k |-> "none"]

\* new Stream(array[Symbol.iterator]()): the array iterator is items + pos.
Stream(items) == [k |-> "Stream", items |-> items, pos |-> 0, pulls |-> 0]

EMPTY == [k |-> "EmptyStream"]

FilterStream(iterator, predicate, context) ==
    [k |-> "FilterStream", iterator |-> iterator, predicate |-> predicate,
     context |-> context, index |-> 0, pulled |-> 0, calls |-> <<>>]

MappingStream(iterator, mapper, context) ==
    [k |-> "MappingStream", iterator |-> iterator, mapper |-> mapper,
     context |-> context, index |-> 0, pulled |-> 0, calls |-> <<>>]

ConcatenatedStream(iterator1, iterator2) ==
    [k |-> "ConcatenatedStream", iterator1 |-> iterator1, iterator2 |-> iterator2,
     pulled1 |-> 0, pulled2 |-> 0]

\* source[Symbol.iterator] is defined.  The sources of this model are arrays,
\* numbers, plain objects, null and undefined.
HasIterator(source) == source.t = "array"

\* Stream.from that throws on a source it cannot iterate.
fromOrThrow(source) ==
    IF HasIterator(source)
    THEN [thrown |-> "none", s |-> Stream(source.a)]
    ELSE [thrown |-> "TypeError", s |-> NoStream]

\* Stream.from(source) and Stream.of(...elements), which call each other.
from(source) ==
    IF source.t \in {"undefined", "null"}
    THEN [thrown |-> "TypeError", s |-> NoStream]
    ELSE IF HasIterator(source)
         THEN [thrown |-> "none", s |-> Stream(source.a)]
         ELSE [thrown |-> "none", s |-> Stream(<<source>>)]

of(elements) == from(Arr(elements))

\* What next() returns, with the producer as the call leaves it ...
Item(s, done, value) == [s |-> s, done |-> done, value |-> value, thrown |-> "none"]

\* A next() that hands on undefined where its callback threw.
Swallow(s, error) == [s |-> s, done |-> FALSE, value |-> Undefined, thrown |-> "none"]

\* ... or the error it throws (asynchronous: its promise rejects with).
Raise(s, error) == [s |-> s, done |-> FALSE, value |-> Undefined, thrown |-> error]

RECURSIVE next(_)

StreamNext(self) ==
    IF self.pos < Len(self.items)
    THEN Item([self EXCEPT !.pos = @ + 1, !.pulls = @ + 1], FALSE, self.items[self.pos + 1])
    ELSE Item([self EXCEPT !.pulls = @ + 1], TRUE, Undefined)

EmptyStreamNext(self) == Item(self, TRUE, Undefined)

\* The filter after this.predicate(current.value, this.index++) was evaluated.
FilterStreamCalled(self, current) ==
    [self EXCEPT !.iterator = current.s, !.index = @ + 1,
                 !.calls = Append(@, Call(current.value, self.index, Undefined))]

\* FilterStream.next with `if` for `while`: one test, then the next item as is.
FilterStreamLoopOnce(self, current) ==
    IF current.thrown # "none" \/ current.done
    THEN [current EXCEPT !.s = [self EXCEPT !.iterator = current.s]]
    ELSE LET called == FilterStreamCalled(self, current) IN
         IF PredicateThrown(self.predicate, current.value) # "none"
         THEN Raise(called, PredicateThrown(self.predicate, current.value))
         ELSE IF CallPredicate(self.predicate, current.value, self.index, Undefined)
              THEN Item(called, FALSE, current.value)
              ELSE LET r == next(current.s) IN
                   [r EXCEPT !.s = [called EXCEPT !.iterator = r.s, !.pulled = @ + 1]]

\* FilterStream.next that increments this.index only for an element that passes.
RECURSIVE FilterStreamLoopCountingMatches(_, _)
FilterStreamLoopCountingMatches(self, current) ==
    IF current.thrown # "none" \/ current.done
    THEN [current EXCEPT !.s = [self EXCEPT !.iterator = current.s]]
    ELSE LET called == FilterStreamCalled(self, current) IN
         IF PredicateThrown(self.predicate, current.value) # "none"
         THEN Raise(called, PredicateThrown(self.predicate, current.value))
         ELSE IF CallPredicate(self.predicate, current.value, self.index, Undefined)
              THEN Item(called, FALSE, current.value)
              ELSE FilterStreamLoopCountingMatches(
                       [called EXCEPT !.pulled = @ + 1, !.index = self.index],
                       next(current.s))

RECURSIVE FilterStreamLoop(_, _)
FilterStreamLoop(self, current) ==
    IF current.thrown # "none" \/ current.done
    THEN [current EXCEPT !.s = [self EXCEPT !.iterator = current.s]]
    ELSE LET called == FilterStreamCalled(self, current) IN
         IF PredicateThrown(self.predicate, current.value) # "none"
         THEN Raise(called, PredicateThrown(self.predicate, current.value))
         ELSE IF CallPredicate(self.predicate, current.value, self.index, Undefined)
              THEN Item(called, FALSE, current.value)
              ELSE FilterStreamLoop([called EXCEPT !.pulled = @ + 1], next(current.s))

FilterStreamNext(self) ==
    FilterStreamLoop([self EXCEPT !.pulled = @ + 1], next(self.iterator))

\* The mapper's result for the item r, or the error the mapper throws; called
\* is the producer after this.mapper(value, this.index++, this.context).
MappingStreamApply(self, r, called, index) ==
    IF MapperThrown(self.mapper, r.value) # "none"
    THEN Raise(called, MapperThrown(self.mapper, r.value))
    ELSE Item(called, FALSE, CallMapper(self.mapper, r.value, index, self.context))

\* MappingStream.next with ++this.index for this.index++.
MappingStreamNextPreIncrement(self) ==
    LET r == next(self.iterator)
        pulledSelf == [self EXCEPT !.iterator = r.s, !.pulled = @ + 1]
    IN  IF r.thrown # "none" THEN Raise(pulledSelf, r.thrown)
        ELSE IF r.done THEN Item(pulledSelf, TRUE, Undefined)
        ELSE MappingStreamApply(self, r,
                 [pulledSelf EXCEPT !.index = @ + 1,
                      !.calls = Append(@, Call(r.value, self.index + 1, self.context))],
                 self.index + 1)

\* MappingStream.next that asks the upstream twice and maps the second item.
MappingStreamNextSkipping(self) ==
    LET skipped == next(self.iterator)
        r == next(skipped.s)
        pulledSelf == [self EXCEPT !.iterator = r.s, !.pulled = @ + 2]
    IN  IF r.thrown # "none" THEN Raise(pulledSelf, r.thrown)
        ELSE IF r.done THEN Item(pulledSelf, TRUE, Undefined)
        ELSE MappingStreamApply(self, r,
                 [pulledSelf EXCEPT !.index = @ + 1,
                      !.calls = Append(@, Call(r.value, self.index, self.context))],
                 self.index)

MappingStreamNext(self) ==
    LET r == next(self.iterator)
        pulledSelf == [self EXCEPT !.iterator = r.s, !.pulled = @ + 1]
    IN  IF r.thrown # "none" THEN Raise(pulledSelf, r.thrown)
        ELSE IF r.done THEN Item(pulledSelf, TRUE, Undefined)
        ELSE MappingStreamApply(self, r,
                 [pulledSelf EXCEPT !.index = @ + 1,
                      !.calls = Append(@, Call(r.value, self.index, self.context))],
                 self.index)

\* ConcatenatedStream.next that returns iterator1's item even when it is done.
ConcatenatedStreamNextFirstOnly(self) ==
    LET current == next(self.iterator1) IN
    [current EXCEPT !.s = [self EXCEPT !.iterator1 = current.s, !.pulled1 = @ + 1]]

ConcatenatedStreamNext(self) ==
    LET current == next(self.iterator1)
        first == [self EXCEPT !.iterator1 = current.s, !.pulled1 = @ + 1]
    IN  IF current.thrown # "none" \/ ~current.done
        THEN [current EXCEPT !.s = first]
        ELSE LET second == next(self.iterator2) IN
             [second EXCEPT !.s = [first EXCEPT !.iterator2 = second.s, !.pulled2 = @ + 1]]

_nextOuter(self) ==
    LET r == next(self.outer) IN
    [self EXCEPT !.outer = r.s,
                 !.inner = IF r.done THEN EMPTY ELSE from(r.value).s]

FlattenedStream(iterator) ==
    _nextOuter([k |-> "FlattenedStream", outer |-> iterator, inner |-> EMPTY])

FlattenedStreamNext(self) ==
    LET current == next(self.inner) IN
    IF ~current.done
    THEN Item([self EXCEPT !.inner = current.s], FALSE, current.value)
    ELSE LET advanced == _nextOuter([self EXCEPT !.inner = current.s])
             r == next(advanced.inner)
         IN  Item([advanced EXCEPT !.inner = r.s], r.done, r.value)

(***************************************************************************)
(* Asynchronous producers (src/src/asyncstream.js).  next() returns a       *)
(* promise; the Item is what the promise resolves to, a Raise what it       *)
(* rejects with.                                                            *)
(***************************************************************************)
\* new AsyncStream({ next: () => Promise.resolve(iterator.next()) })
AsyncStream(items) == [k |-> "AsyncStream", items |-> items, pos |-> 0, pulls |-> 0]

FilterAsyncStream(iterator, predicate, context) ==
    [k |-> "FilterAsyncStream", iterator |-> iterator, predicate |-> predicate,
     context |-> context, index |-> 0, pulled |-> 0, calls |-> <<>>]

MappingAsyncStream(iterator, mapper, context) ==
    [k |-> "MappingAsyncStream", iterator |-> iterator, mapper |-> mapper,
     context |-> context, index |-> 0, pulled |-> 0, calls |-> <<>>]

ConcatenatedAsyncStream(iterator1, iterator2) ==
    [k |-> "ConcatenatedAsyncStream", iterator1 |-> iterator1, iterator2 |-> iterator2,
     pulled1 |-> 0, pulled2 |-> 0]

\* AsyncStream.from(source): `Symbol.iterator in source` throws a TypeError on
\* a primitive; the fallback names Stream, which asyncstream.js never binds.
AsyncFrom(source) ==
    IF source.t \notin {"array", "object"}
    THEN [thrown |-> "TypeError", s |-> NoStream]
    ELSE IF HasIterator(source)
         THEN [thrown |-> "none", s |-> AsyncStream(source.a)]
         ELSE [thrown |-> "ReferenceError", s |-> NoStream]

AsyncStreamNext(self) == StreamNext(self)

RECURSIVE FilterAsyncStreamNext(_)
FilterAsyncStreamNext(self) ==
    LET r == next(self.iterator)
        pulledSelf == [self EXCEPT !.iterator = r.s, !.pulled = @ + 1]
    IN  IF r.thrown # "none" \/ r.done
        THEN [r EXCEPT !.s = pulledSelf]
        ELSE LET called == [pulledSelf EXCEPT !.index = @ + 1,
                                !.calls = Append(@, Call(r.value, self.index, self.context))]
             IN  IF PredicateThrown(self.predicate, r.value) # "none"
                 THEN Raise(called, PredicateThrown(self.predicate, r.value))
                 ELSE IF CallPredicate(self.predicate, r.value, self.index, self.context)
                      THEN Item(called, FALSE, r.value)
                      ELSE FilterAsyncStreamNext(called)

\* The stream accessor of flatten, iterable => AsyncStream.from(iterable), is
\* a mapper too: what it returns is a stream.
AsyncCallMapper(m, value, index, context) ==
    IF m = "AsyncStream.from" THEN AsyncFrom(value).s
    ELSE CallMapper(m, value, index, context)

AsyncMapperThrown(m, value) ==
    IF m = "AsyncStream.from" THEN AsyncFrom(value).thrown ELSE MapperThrown(m, value)

MappingAsyncStreamNext(self) ==
    LET r == next(self.iterator)
        pulledSelf == [self EXCEPT !.iterator = r.s, !.pulled = @ + 1]
    IN  IF r.thrown # "none" THEN Raise(pulledSelf, r.thrown)
        ELSE IF r.done THEN Item(pulledSelf, TRUE, Bool(FALSE))
        ELSE LET called == [pulledSelf EXCEPT !.index = @ + 1,
                                !.calls = Append(@, Call(r.value, self.index, self.context))]
             IN  IF AsyncMapperThrown(self.mapper, r.value) # "none"
                 THEN Raise(called, AsyncMapperThrown(self.mapper, r.value))
                 ELSE Item(called, FALSE,
                           AsyncCallMapper(self.mapper, r.value, self.index, self.context))

ConcatenatedAsyncStreamNext(self) ==
    LET first == next(self.iterator1)
        pulledSelf == [self EXCEPT !.iterator1 = first.s, !.pulled1 = @ + 1]
    IN  IF first.thrown # "none" \/ ~first.done
        THEN [first EXCEPT !.s = pulledSelf]
        ELSE LET second == next(self.iterator2) IN
             [second EXCEPT !.s = [pulledSelf EXCEPT !.iterator2 = second.s,
                                                     !.pulled2 = @ + 1]]

\* What the promise this.outer_value has settled with.
Settled(item) == [done |-> item.done, value |-> item.value, thrown |-> item.thrown]

\* new FlattenedAsyncStream(iterator): the constructor pulls the outer stream.
FlattenedAsyncStream(iterator) ==
    LET first == next(MappingAsyncStream(iterator, "AsyncStream.from", Undefined)) IN
    [k |-> "FlattenedAsyncStream", outer |-> first.s, outer_value |-> Settled(first)]

\* FlattenedAsyncStream.next that hands on the inner stream's item as it is.
FlattenedAsyncStreamNextInnerOnly(self) ==
    IF self.outer_value.thrown # "none" THEN Raise(self, self.outer_value.thrown)
    ELSE IF self.outer_value.done THEN Item(self, TRUE, Undefined)
    ELSE LET r == next(self.outer_value.value) IN
         Item([self EXCEPT !.outer_value.value = r.s], r.done, r.value)

RECURSIVE FlattenedAsyncStreamNext(_)
FlattenedAsyncStreamNext(self) ==
    IF self.outer_value.thrown # "none" THEN Raise(self, self.outer_value.thrown)
    ELSE IF self.outer_value.done THEN Item(self, TRUE, Undefined)
    ELSE LET r == next(self.outer_value.value) IN
         IF r.done
         THEN LET o == next(self.outer) IN
              FlattenedAsyncStreamNext([self EXCEPT !.outer = o.s,
                                                    !.outer_value = Settled(o)])
         ELSE Item([self EXCEPT !.outer_value.value = r.s], FALSE, r.value)

next(s) ==
    CASE s.k = "Stream" -> StreamNext(s)
      [] s.k = "EmptyStream" -> EmptyStreamNext(s)
      [] s.k = "FilterStream" -> FilterStreamNext(s)
      [] s.k = "MappingStream" -> MappingStreamNext(s)
      [] s.k = "ConcatenatedStream" -> ConcatenatedStreamNext(s)
      [] s.k = "FlattenedStream" -> FlattenedStreamNext(s)
      [] s.k = "AsyncStream" -> AsyncStreamNext(s)
      [] s.k = "FilterAsyncStream" -> FilterAsyncStreamNext(s)
      [] s.k = "MappingAsyncStream" -> MappingAsyncStreamNext(s)
      [] s.k = "ConcatenatedAsyncStream" -> ConcatenatedAsyncStreamNext(s)
      [] s.k = "FlattenedAsyncStream" -> FlattenedAsyncStreamNext(s)

IsAsync(s) ==
    s.k \in {"AsyncStream", "FilterAsyncStream", "MappingAsyncStream",
             "ConcatenatedAsyncStream", "FlattenedAsyncStream"}

(***************************************************************************)
(* Intermediate operations of BaseStream and BaseAsyncStream.               *)
(***************************************************************************)
filter(self, predicate, context) == FilterStream(self, predicate, context)

map(self, mapper, context) == MappingStream(self, mapper, context)

concat(self, iterator) == ConcatenatedStream(self, iterator)

flatten(self) == FlattenedStream(self)

\* slice without its test of begin.
sliceUnchecked(self, begin, end) ==
    IF Truthy(end) /\ end.n < 0 THEN [thrown |-> "RangeError", s |-> NoStream]
    ELSE [thrown |-> "none",
          s |-> filter(self, IF Truthy(end) THEN Pred("sliceTo", begin, end.n)
                                            ELSE Pred("sliceFrom", begin, 0),
                       Undefined)]

\* begin is a number; end is a number or undefined (left out).
slice(self, begin, end) ==
    IF begin < 0 THEN [thrown |-> "RangeError", s |-> NoStream]
    ELSE IF Truthy(end) /\ end.n < 0 THEN [thrown |-> "RangeError", s |-> NoStream]
    ELSE [thrown |-> "none",
          s |-> filter(self, IF Truthy(end) THEN Pred("sliceTo", begin, end.n)
                                            ELSE Pred("sliceFrom", begin, 0),
                       Undefined)]

AsyncFilter(self, predicate, context) == FilterAsyncStream(self, predicate, context)

AsyncMap(self, mapper, context) == MappingAsyncStream(self, mapper, context)

AsyncConcat(self, iterator) == ConcatenatedAsyncStream(self, iterator)

AsyncFlatten(self) == FlattenedAsyncStream(self)

AsyncSlice(self, begin, end) ==
    IF begin < 0 THEN [thrown |-> "RangeError", s |-> NoStream]
    ELSE IF Truthy(end) /\ end.n < 0 THEN [thrown |-> "RangeError", s |-> NoStream]
    ELSE [thrown |-> "none",
          s |-> AsyncFilter(self, IF Truthy(end) THEN Pred("sliceTo", begin, end.n)
                                                 ELSE Pred("sliceFrom", begin, 0),
                            Undefined)]

(***************************************************************************)
(* Terminals of BaseStream.  Each gives the stream after the call (s), the  *)
(* value returned (r), the invocations of the callback it was given         *)
(* (calls) and what the callback's closure holds at the end (closure).      *)
(***************************************************************************)
Outcome(s, r, calls, closure) == [s |-> s, r |-> r, calls |-> calls, closure |-> closure]

\* e[i]: an element of an array, undefined on a number, a boolean or an object
\* without that property.  (On undefined and null it throws.)
Index(e, i) ==
    IF e.t = "array" /\ i < Len(e.a) THEN e.a[i + 1] ELSE Undefined

\* The default value function of toMap and toObject taken to be e => e[0].
DefaultValueFirst(e) == Index(e, 0)

\* key = e=>e[0], value = e=>e[1]
DefaultKey(e) == Index(e, 0)
DefaultValue(e) == Index(e, 1)

\* new Map(): its entries [key, value] in the order the keys were first set.
EmptyMap == [t |-> "Map", n |-> 0, a |-> <<>>, s |-> ""]

\* The keys of a Map are the same under SameValueZero: equal primitives, NaN
\* with NaN, an object only with itself (so never with another element's).
SameValueZero(x, y) == x.t \notin {"array", "object", "String", "Map"} /\ x = y

\* The entries of a Map or the properties of an object after key is set.
SetEntry(entries, key, value) ==
    IF \E i \in 1..Len(entries) : SameValueZero(entries[i].a[1], key)
    THEN [i \in 1..Len(entries) |->
             IF SameValueZero(entries[i].a[1], key) THEN Arr(<<key, value>>) ELSE entries[i]]
    ELSE Append(entries, Arr(<<key, value>>))

\* map.set(key, value)
MapSet(newMap, key, value) == [newMap EXCEPT !.a = SetEntry(@, key, value)]

\* obj[key] = value: the property is named by the string of key.  The
\* properties are kept in the order they were created.
PropertyKey(key) == Str(ToString(key))

ObjectAssign(obj, key, value) == [obj EXCEPT !.a = SetEntry(@, PropertyKey(key), value)]

\* callback(value, index, context), acting on the variable it closes over.
CallCallback(callback, closure, value, index, context) ==
    CASE callback.name = "push" -> Arr(Append(closure.a, value))   \* e => array.push(e)
      [] callback.name = "set" ->           \* e => map.set(key(e), value(e))
            MapSet(closure, DefaultKey(value), DefaultValue(value))
      [] callback.name = "assign" ->        \* e => obj[key(e)] = value(e)
            ObjectAssign(closure, DefaultKey(value), DefaultValue(value))
      [] callback.name = "append" ->        \* e => { result+=separator; result+=e; }
            Str(ToString(closure) \o callback.separator \o ToString(value))

\* every whose loop tests !item.done alone.
RECURSIVE everyToTheEnd(_, _, _, _, _, _)
everyToTheEnd(item, index, result, predicate, context, calls) ==
    IF ~item.done
    THEN everyToTheEnd(next(item.s), index + 1,
                       CallPredicate(predicate, item.value, index, context),
                       predicate, context, Append(calls, Call(item.value, index, context)))
    ELSE Outcome(item.s, Bool(result), calls, Undefined)

RECURSIVE everyLoop(_, _, _, _, _, _)
everyLoop(item, index, result, predicate, context, calls) ==
    IF ~item.done /\ result
    THEN everyLoop(next(item.s), index + 1,
                   CallPredicate(predicate, item.value, index, context),
                   predicate, context, Append(calls, Call(item.value, index, context)))
    ELSE Outcome(item.s, Bool(result), calls, Undefined)

\* every with `let result = false`.
everyStartingFalse(self, predicate, context) ==
    everyLoop(next(self), 0, FALSE, predicate, context, <<>>)

every(self, predicate, context) == everyLoop(next(self), 0, TRUE, predicate, context, <<>>)

\* find that goes on to the end and returns the last item that passed.
RECURSIVE findLast(_, _, _, _, _, _)
findLast(item, index, predicate, context, calls, last) ==
    IF item.done THEN Outcome(item.s, last, calls, Undefined)
    ELSE findLast(next(item.s), index + 1, predicate, context,
                  Append(calls, Call(item.value, index, context)),
                  IF CallPredicate(predicate, item.value, index, context)
                  THEN item.value ELSE last)

findToTheEnd(self, predicate, context) ==
    findLast(next(self), 0, predicate, context, <<>>, Undefined)

RECURSIVE findLoop(_, _, _, _, _)
findLoop(item, index, predicate, context, calls) ==
    IF item.done THEN Outcome(item.s, Undefined, calls, Undefined)
    ELSE IF CallPredicate(predicate, item.value, index, context)
         THEN Outcome(item.s, item.value, Append(calls, Call(item.value, index, context)),
                      Undefined)
         ELSE findLoop(next(item.s), index + 1, predicate, context,
                       Append(calls, Call(item.value, index, context)))

find(self, predicate, context) == findLoop(next(self), 0, predicate, context, <<>>)

RECURSIVE findIndexLoop(_, _, _, _, _)
findIndexLoop(item, index, predicate, context, calls) ==
    IF item.done THEN Outcome(item.s, Num(-1), calls, Undefined)
    ELSE IF CallPredicate(predicate, item.value, index, context)
         THEN Outcome(item.s, Num(index), Append(calls, Call(item.value, index, context)),
                      Undefined)
         ELSE findIndexLoop(next(item.s), index + 1, predicate, context,
                            Append(calls, Call(item.value, index, context)))

findIndex(self, predicate, context) ==
    findIndexLoop(next(self), 0, predicate, context, <<>>)

RECURSIVE forEachLoop(_, _, _, _, _, _)
forEachLoop(item, index, callback, context, calls, closure) ==
    IF item.done THEN Outcome(item.s, Undefined, calls, closure)
    ELSE forEachLoop(next(item.s), index + 1, callback, context,
                     Append(calls, Call(item.value, index, context)),
                     CallCallback(callback, closure, item.value, index, context))

forEach(self, callback, context, closure) ==
    forEachLoop(next(self), 0, callback, context, <<>>, closure)

join(self, separator) ==
    LET first == next(self) IN
    IF first.done THEN Outcome(first.s, Str(""), <<>>, Undefined)
    ELSE LET rest == forEach(first.s, [name |-> "append", separator |-> separator],
                             Undefined, StringObject(ToString(first.value)))
         IN  Outcome(rest.s, rest.closure, <<>>, Undefined)

\* shift that reads the first item of a copy of the stream.
shiftWithoutAdvancing(self) ==
    LET item == next(self) IN
    Outcome(self, IF item.done THEN Undefined ELSE item.value, <<>>, Undefined)

shift(self) ==
    LET item == next(self) IN
    Outcome(item.s, IF item.done THEN Undefined ELSE item.value, <<>>, Undefined)

\* x != undefined
NotLooselyUndefined(x) == x.t \notin {"undefined", "null"}

some(self, predicate) ==
    LET found == find(self, predicate, Undefined) IN
    Outcome(found.s, Bool(NotLooselyUndefined(found.r)), found.calls, Undefined)

ReducerCall(accumulator, value, index, context) ==
    [accumulator |-> accumulator, value |-> value, index |-> index, context |-> context]

RECURSIVE reduceLoop(_, _, _, _, _, _)
reduceLoop(item, index, callback, value, context, calls) ==
    IF item.done THEN Outcome(item.s, value, calls, Undefined)
    ELSE reduceLoop(next(item.s), index + 1, callback,
                    CallReducer(callback, value, item.value, index, context), context,
                    Append(calls, ReducerCall(value, item.value, index, context)))

\* reduce with `let index = 1`.
reduceCountingFromOne(self, callback, value, context) ==
    reduceLoop(next(self), 1, callback, value, context, <<>>)

reduce(self, callback, value, context) ==
    reduceLoop(next(self), 0, callback, value, context, <<>>)

\* this.slice(fromIndex).find(e => e === item) !== undefined; s is this
\* stream, which the slice pulls from.
includes(self, item, fromIndex) ==
    LET found == find(slice(self, fromIndex, Undefined).s, Same(item), Undefined)
    IN  Outcome(found.s.iterator, Bool(found.r.t # "undefined"), found.calls, Undefined)

\* indexOf that returns the index findIndex gives, counted in the slice.
indexOfInSlice(self, item, fromIndex) ==
    LET search == findIndex(slice(self, fromIndex, Undefined).s, Same(item), Undefined)
    IN  Outcome(search.s.iterator, search.r, search.calls, Undefined)

indexOf(self, item, fromIndex) ==
    LET search == findIndex(slice(self, fromIndex, Undefined).s, Same(item), Undefined)
    IN  Outcome(search.s.iterator,
                IF search.r.n < 0 THEN Num(-1) ELSE Num(search.r.n + fromIndex),
                search.calls, Undefined)

RECURSIVE toArrayLoop(_, _)
toArrayLoop(item, array) ==
    IF item.done THEN Outcome(item.s, Arr(array), <<>>, Undefined)
    ELSE toArrayLoop(next(item.s), Append(array, item.value))

\* toArray whose loop tests the item after the one it pushes.
toArraySkipFirst(self) == toArrayLoop(next(next(self).s), <<>>)

toArray(self) == toArrayLoop(next(self), <<>>)

RECURSIVE toMapLoop(_, _)
toMapLoop(item, newMap) ==
    IF item.done THEN Outcome(item.s, newMap, <<>>, Undefined)
    ELSE toMapLoop(next(item.s), MapSet(newMap, DefaultKey(item.value), DefaultValue(item.value)))

toMap(self) == toMapLoop(next(self), EmptyMap)

RECURSIVE toObjectLoop(_, _)
toObjectLoop(item, obj) ==
    IF item.done THEN Outcome(item.s, obj, <<>>, Undefined)
    ELSE toObjectLoop(next(item.s),
                      ObjectAssign(obj, DefaultKey(item.value), DefaultValue(item.value)))

toObject(self) == toObjectLoop(next(self), Obj)

(***************************************************************************)
(* Terminals of BaseAsyncStream.  Each returns a promise; r is the value    *)
(* the promise resolves to once the chain of then() callbacks has run.      *)
(***************************************************************************)
RECURSIVE AsyncEveryCheck(_, _, _, _, _)
AsyncEveryCheck(item, index, predicate, context, calls) ==
    IF item.done THEN Outcome(item.s, Bool(TRUE), calls, Undefined)
    ELSE IF CallPredicate(predicate, item.value, index, context)
         THEN AsyncEveryCheck(next(item.s), index + 1, predicate, context,
                              Append(calls, Call(item.value, index, context)))
         ELSE Outcome(item.s, Bool(FALSE),
                      Append(calls, Call(item.value, index, context)), Undefined)

AsyncEvery(self, predicate, context) ==
    AsyncEveryCheck(next(self), 0, predicate, context, <<>>)

RECURSIVE AsyncFindCheck(_, _, _, _, _)
AsyncFindCheck(item, index, predicate, context, calls) ==
    IF item.done THEN Outcome(item.s, Undefined, calls, Undefined)
    ELSE IF CallPredicate(predicate, item.value, index, context)
         THEN Outcome(item.s, item.value, Append(calls, Call(item.value, index, context)),
                      Undefined)
         ELSE AsyncFindCheck(next(item.s), index + 1, predicate, context,
                             Append(calls, Call(item.value, index, context)))

AsyncFind(self, predicate, context) ==
    AsyncFindCheck(next(self), 0, predicate, context, <<>>)

RECURSIVE AsyncFindIndexCheck(_, _, _, _, _)
AsyncFindIndexCheck(item, index, predicate, context, calls) ==
    IF item.done THEN Outcome(item.s, Num(-1), calls, Undefined)
    ELSE IF CallPredicate(predicate, item.value, index, context)
         THEN Outcome(item.s, Num(index), Append(calls, Call(item.value, index, context)),
                      Undefined)
         ELSE AsyncFindIndexCheck(next(item.s), index + 1, predicate, context,
                                  Append(calls, Call(item.value, index, context)))

AsyncFindIndex(self, predicate, context) ==
    AsyncFindIndexCheck(next(self), 0, predicate, context, <<>>)

\* index++ comes before the callback is invoked.
RECURSIVE AsyncForEachExecute(_, _, _, _, _, _)
AsyncForEachExecute(item, index, callback, context, calls, closure) ==
    IF ~item.done
    THEN AsyncForEachExecute(next(item.s), index + 1, callback, context,
                             Append(calls, Call(item.value, index + 1, context)),
                             CallCallback(callback, closure, item.value, index + 1, context))
    ELSE Outcome(item.s, Undefined, calls, closure)

AsyncForEach(self, callback, context, closure) ==
    AsyncForEachExecute(next(self), 0, callback, context, <<>>, closure)

AsyncIncludes(self, item, fromIndex) ==
    LET found == AsyncFind(AsyncSlice(self, fromIndex, Undefined).s, Same(item), Undefined)
    IN  Outcome(found.s.iterator, Bool(found.r.t # "undefined"), found.calls, Undefined)

AsyncIndexOf(self, item, fromIndex) ==
    LET search == AsyncFindIndex(AsyncSlice(self, fromIndex, Undefined).s, Same(item),
                                 Undefined)
    IN  Outcome(search.s.iterator,
                IF search.r.n < 0 THEN Num(-1) ELSE Num(search.r.n + fromIndex),
                search.calls, Undefined)

AsyncJoin(self, separator) ==
    LET first == next(self) IN
    IF first.done THEN Outcome(first.s, Str(""), <<>>, Undefined)
    ELSE LET rest == AsyncForEach(first.s, [name |-> "append", separator |-> separator],
                                  Undefined, StringObject(ToString(first.value)))
         IN  Outcome(rest.s, rest.closure, <<>>, Undefined)

RECURSIVE AsyncReduceExecute(_, _, _, _, _, _)
AsyncReduceExecute(item, index, callback, accumulator, context, calls) ==
    IF item.done THEN Outcome(item.s, accumulator, calls, Undefined)
    ELSE AsyncReduceExecute(next(item.s), index + 1, callback,
                            CallReducer(callback, accumulator, item.value, index, context),
                            context,
                            Append(calls, ReducerCall(accumulator, item.value, index, context)))

AsyncReduce(self, callback, accumulator, context) ==
    AsyncReduceExecute(next(self), 0, callback, accumulator, context, <<>>)

AsyncShift(self) ==
    LET item == next(self) IN
    Outcome(item.s, IF item.done THEN Undefined ELSE item.value, <<>>, Undefined)

AsyncSome(self, predicate) ==
    LET found == AsyncFind(self, predicate, Undefined) IN
    Outcome(found.s, Bool(NotLooselyUndefined(found.r)), found.calls, Undefined)

AsyncToMap(self) ==
    LET each == AsyncForEach(self, [name |-> "set", separator |-> ""], Undefined, EmptyMap)
    IN  Outcome(each.s, each.closure, <<>>, Undefined)

AsyncToObject(self) ==
    LET each == AsyncForEach(self, [name |-> "assign", separator |-> ""], Undefined, Obj)
    IN  Outcome(each.s, each.closure, <<>>, Undefined)

AsyncToArray(self) ==
    LET each == AsyncForEach(self, [name |-> "push", separator |-> ""], Undefined, Arr(<<>>))
    IN  Outcome(each.s, each.closure, <<>>, Undefined)

(***************************************************************************)
(* The program: a stream is built from a source, intermediate operations    *)
(* are chained on it, and one terminal drains it.  ops is the chain of      *)
(* calls made so far, thrown the error a call raised.                       *)
(***************************************************************************)
VARIABLES stream, ops, result, thrown, calls, pc, promises

vars == <<stream, ops, result, thrown, calls, pc, promises>>

NumberSources == UNION {[1..n -> {Num(1), Num(2)}] : n \in 0..MaxLen}
NestedSources == UNION {[1..n -> {Arr(<<>>), Arr(<<Num(1), Num(2)>>)}] : n \in 0..MaxLen}
\* Arrays of [key, value] pairs with keys that differ: a name, a number and
\* the string of that number.
PairKeys == {Str("foo"), Num(1), Str("1")}
PairSources ==
    UNION {{[i \in 1..n |-> Arr(<<keys[i], Num(i)>>)] :
               keys \in {k \in [1..n -> PairKeys] : \A i, j \in 1..n : i # j => k[i] # k[j]}} :
           n \in 1..MaxPairs}
\* Arrays that hold undefined or null.
HoleSources == {<<Undefined>>, <<Null>>, <<Num(1), Undefined>>, <<Null, Num(2)>>}
\* What is handed to from(): arrays, and values that cannot be iterated.
Sources == {Arr(a) : a \in NumberSources \cup NestedSources \cup HoleSources
                                          \cup PairSources}
               \cup {Num(1), Obj, Undefined}

Predicates == {Pred("even", 0, 0), Pred("gt1", 0, 0)}
\* Callbacks that throw on the element 2.
ThrowingPredicates == {Pred("throwsOn2", 0, 0)}
ThrowingMappers == {"throwsOn2"}
\* The predicates handed to find and some: e => e === undefined and
\* e => e === null besides.
\* The items includes and indexOf look for, and where they start looking.
Needles == {Num(2), Undefined}
FromIndexes == {0, 1, 2}
\* The initial accumulators of reduce.
Accumulators == {Num(0), Str("")}
\* The context handed to filter, map, reduce and forEach.
Context == Obj
SearchPredicates == Predicates \cup {Same(Undefined), Same(Null)}
Mappers == {"times7", "entries"}
SliceBegins == {-1, 0, 1, 2}
SliceEnds == {Undefined, Num(-1), Num(0), Num(1), Num(2)}
\* The arrays of the stream handed to concat(): Stream.from(B), or
\* Stream.from(B).concat(Stream.from(C)).
ConcatArgs == {<<<<>>>>, <<<<Num(2)>>>>, <<<<>>, <<Num(1)>>>>,
               <<<<Num(2)>>, <<Num(1), Num(2)>>>>}

Op(name, arg) == [op |-> name, arg |-> arg]

\* The values a stream yields until it is done.
RECURSIVE Elements(_)
Elements(s) ==
    LET item == next(s) IN
    IF item.done THEN <<>> ELSE <<item.value>> \o Elements(item.s)

Init ==
    /\ stream = NoStream
    /\ ops = <<>>
    /\ result = Undefined
    /\ thrown = "none"
    /\ calls = <<>>
    /\ pc = "start"
    /\ promises = <<>>

\* The promises of next() that have not settled, when the stream they were
\* asked of has become the field of a new producer: the place of each,
\* at, is counted from the new producer.
Wrapped(pending, field) ==
    [i \in 1..Len(pending) |-> [pending[i] EXCEPT !.at = <<field>> \o @]]

\* The field in which the producer made by the call name keeps the stream it
\* was called on.
UpstreamField(name) == IF name = "concat" THEN "iterator1" ELSE "iterator"

\* A call that returns a stream or throws.
Build(name, arg, made) ==
    /\ ops' = Append(ops, Op(name, arg))
    /\ thrown' = made.thrown
    /\ IF made.thrown = "none"
       THEN /\ stream' = made.s
            /\ pc' = "built"
            /\ promises' = Wrapped(promises, UpstreamField(name))
       ELSE /\ UNCHANGED <<stream, promises>>
            /\ pc' = "thrown"
    /\ UNCHANGED <<result, calls>>

Returned(s) == [thrown |-> "none", s |-> s]

From ==
    /\ pc = "start"
    /\ \E source \in Sources : Build("Stream.from", source, from(source))

FromAsync ==
    /\ pc = "start"
    /\ \E source \in Sources : Build("AsyncStream.from", source, AsyncFrom(source))

CanChain == pc = "built" /\ Len(ops) - 1 < MaxOps

\* filter(predicate, context) with a predicate among predicates.
FilterWith(predicates) ==
    /\ CanChain
    /\ \E predicate \in predicates :
          Build("filter", predicate,
                Returned(IF IsAsync(stream) THEN AsyncFilter(stream, predicate, Context)
                                            ELSE filter(stream, predicate, Context)))

Filter == FilterWith(Predicates)

\* map(mapper, context) with a mapper among mappers.
MapWith(mappers) ==
    /\ CanChain
    /\ \E mapper \in mappers :
          Build("map", mapper,
                Returned(IF IsAsync(stream) THEN AsyncMap(stream, mapper, Context)
                                            ELSE map(stream, mapper, Context)))

Map == MapWith(Mappers)

Concat ==
    /\ CanChain
    /\ \E arg \in ConcatArgs :
          LET other ==
                IF IsAsync(stream)
                THEN IF Len(arg) = 1 THEN AsyncFrom(Arr(arg[1])).s
                     ELSE AsyncConcat(AsyncFrom(Arr(arg[1])).s, AsyncFrom(Arr(arg[2])).s)
                ELSE IF Len(arg) = 1 THEN from(Arr(arg[1])).s
                     ELSE concat(from(Arr(arg[1])).s, from(Arr(arg[2])).s)
          IN  Build("concat", arg,
                    Returned(IF IsAsync(stream) THEN AsyncConcat(stream, other)
                                                ELSE concat(stream, other)))

\* No callback of the calls made so far throws.
NoThrower ==
    \A i \in 1..Len(ops) :
       /\ ops[i].op = "filter" => ops[i].arg \notin ThrowingPredicates
       /\ ops[i].op = "map" => ops[i].arg \notin ThrowingMappers

\* flatten() is called on streams of elements that from() accepts: on
\* undefined or null Stream.from throws from inside next(), and so does
\* AsyncStream.from on anything but an array.
Flatten ==
    /\ CanChain
    /\ NoThrower
    /\ \A i \in 1..Len(Elements(stream)) :
          IF IsAsync(stream) THEN HasIterator(Elements(stream)[i])
                             ELSE NotLooselyUndefined(Elements(stream)[i])
    /\ Build("flatten", Undefined,
             Returned(IF IsAsync(stream) THEN AsyncFlatten(stream) ELSE flatten(stream)))

Slice ==
    /\ CanChain
    /\ \E begin \in SliceBegins, end \in SliceEnds :
          Build("slice", [begin |-> begin, end |-> end],
                IF IsAsync(stream) THEN AsyncSlice(stream, begin, end)
                                   ELSE slice(stream, begin, end))

\* What a call that returns a value leaves behind.
Return(name, arg, out) ==
    /\ stream' = out.s
    /\ result' = out.r
    /\ calls' = out.calls
    /\ ops' = Append(ops, Op(name, arg))
    /\ UNCHANGED <<thrown, promises>>

\* A terminal call and what it returns.
Finish(name, arg, out) ==
    /\ pc = "built"
    /\ Return(name, arg, out)
    /\ pc' = "done"

\* shift() takes one element and leaves the stream for the call that follows.
Shift ==
    /\ pc = "built"
    /\ Return("shift", Undefined, IF IsAsync(stream) THEN AsyncShift(stream) ELSE shift(stream))
    /\ pc' = "shifted"

\* toArray() on a stream as built, or on what a shift() left of it.
ToArray ==
    /\ pc \in {"built", "shifted"}
    /\ Return("toArray", Undefined,
              IF IsAsync(stream) THEN AsyncToArray(stream) ELSE toArray(stream))
    /\ pc' = "done"

Join ==
    Finish("join", ", ",
           IF IsAsync(stream) THEN AsyncJoin(stream, ", ") ELSE join(stream, ", "))

Every ==
    \E predicate \in Predicates :
       Finish("every", predicate,
              IF IsAsync(stream) THEN AsyncEvery(stream, predicate, Undefined)
                                 ELSE every(stream, predicate, Undefined))

Find ==
    \E predicate \in SearchPredicates :
       Finish("find", predicate,
              IF IsAsync(stream) THEN AsyncFind(stream, predicate, Undefined)
                                 ELSE find(stream, predicate, Undefined))

FindIndex ==
    \E predicate \in Predicates :
       Finish("findIndex", predicate,
              IF IsAsync(stream) THEN AsyncFindIndex(stream, predicate, Undefined)
                                 ELSE findIndex(stream, predicate, Undefined))

Some ==
    \E predicate \in SearchPredicates :
       Finish("some", predicate,
              IF IsAsync(stream) THEN AsyncSome(stream, predicate)
                                 ELSE some(stream, predicate))

Includes ==
    \E item \in Needles, fromIndex \in FromIndexes :
       Finish("includes", [item |-> item, fromIndex |-> fromIndex],
              IF IsAsync(stream) THEN AsyncIncludes(stream, item, fromIndex)
                                 ELSE includes(stream, item, fromIndex))

IndexOf ==
    \E item \in Needles, fromIndex \in FromIndexes :
       Finish("indexOf", [item |-> item, fromIndex |-> fromIndex],
              IF IsAsync(stream) THEN AsyncIndexOf(stream, item, fromIndex)
                                 ELSE indexOf(stream, item, fromIndex))

Reduce ==
    \E value \in Accumulators :
       Finish("reduce", value,
              IF IsAsync(stream) THEN AsyncReduce(stream, "sum", value, Context)
                                 ELSE reduce(stream, "sum", value, Context))

\* forEach(e => array.push(e), context)
ForEach ==
    Finish("forEach", "push",
           IF IsAsync(stream)
           THEN AsyncForEach(stream, [name |-> "push", separator |-> ""], Context, Arr(<<>>))
           ELSE forEach(stream, [name |-> "push", separator |-> ""], Context, Arr(<<>>)))

\* toMap() and toObject() are called on streams of elements that can be
\* indexed: e[0] on undefined or null throws.
CanIndexElements ==
    \A i \in 1..Len(Elements(stream)) : NotLooselyUndefined(Elements(stream)[i])

ToMap ==
    /\ pc = "built"
    /\ CanIndexElements
    /\ Finish("toMap", Undefined, IF IsAsync(stream) THEN AsyncToMap(stream) ELSE toMap(stream))

ToObject ==
    /\ pc = "built"
    /\ CanIndexElements
    /\ Finish("toObject", Undefined,
              IF IsAsync(stream) THEN AsyncToObject(stream) ELSE toObject(stream))

\* README.md, Example: Stream.of([1,...,9]).map(a=>a*7).filter(a=>a%2===0)
\* .slice(2,4).join(', ')
ReadmeExample ==
    /\ pc = "start"
    /\ LET digits == Arr([i \in 1..9 |-> Num(i)])
           made == of(<<digits>>).s
           mapped == map(made, "times7", Undefined)
           filtered == filter(mapped, Pred("even", 0, 0), Undefined)
           sliced == slice(filtered, 2, Num(4)).s
           out == join(sliced, ", ")
       IN  /\ stream' = out.s
           /\ result' = out.r
           /\ calls' = out.calls
           /\ ops' = <<Op("README", digits)>>
    /\ pc' = "done"
    /\ UNCHANGED <<thrown, promises>>

Next ==
    \/ From
    \/ FromAsync
    \/ Filter
    \/ Map
    \/ Concat
    \/ Flatten
    \/ Slice
    \/ ToArray
    \/ Join
    \/ Every
    \/ Find
    \/ FindIndex
    \/ Some
    \/ Includes
    \/ IndexOf
    \/ Reduce
    \/ ForEach
    \/ Shift
    \/ ToMap
    \/ ToObject
    \/ ReadmeExample

Spec == Init /\ [][Next]_vars

(***************************************************************************)
(* The program that pulls by hand: it builds a stream, with callbacks that  *)
(* may throw, and calls next() on it until the stream reports done; or it   *)
(* calls every, find or findIndex and then next() on what they left.        *)
(***************************************************************************)
\* What a call of next() returned (asynchronous: its promise resolved to).
IteratorResult(done, value) == [done |-> done, value |-> value]

\* stream.next()
Pull ==
    /\ pc \in {"built", "pulling", "done"}
    /\ LET item == next(stream) IN
       /\ stream' = item.s
       /\ thrown' = item.thrown
       /\ result' = IF item.thrown = "none" THEN IteratorResult(item.done, item.value)
                                            ELSE result
       /\ pc' = IF item.thrown = "none" /\ item.done THEN "drained" ELSE "pulling"
    /\ ops' = Append(ops, Op("next", Undefined))
    /\ UNCHANGED <<calls, promises>>

PullFilter == FilterWith(Predicates \cup ThrowingPredicates)

PullMap == MapWith(Mappers \cup ThrowingMappers)

\* every, find and findIndex on streams whose callbacks return.
PullEvery == NoThrower /\ Every

PullFind == NoThrower /\ Find

PullFindIndex == NoThrower /\ FindIndex

PullNext ==
    \/ From
    \/ FromAsync
    \/ PullFilter
    \/ PullMap
    \/ Concat
    \/ Flatten
    \/ Slice
    \/ PullEvery
    \/ PullFind
    \/ PullFindIndex
    \/ Pull

PullSpec == Init /\ [][PullNext]_vars

(***************************************************************************)
(* The asynchronous variant promise by promise.  A call of next() returns   *)
(* a promise at once and the promise settles later: a source's after a      *)
(* delay, a producer's when the callback it gave to then() has run and what *)
(* the callback returned has settled.  promises holds the promises of       *)
(* next() that have not settled, each with the producer it was asked of     *)
(* (at, the fields that lead to it from the stream) and the callback that   *)
(* will settle it (k); every promise waits for the one after it.            *)
(***************************************************************************)
RECURSIVE At(_, _)
\* The producer reached from s by the fields of path; "inner" is the inner
\* stream a flatten is reading, this.outer_value's value.
At(s, path) ==
    IF path = <<>> THEN s
    ELSE At(IF Head(path) = "inner" THEN s.outer_value.value ELSE s[Head(path)],
            Tail(path))

RECURSIVE Put(_, _, _)
\* s with the producer at path replaced by p.
Put(s, path, p) ==
    IF path = <<>> THEN p
    ELSE IF Head(path) = "inner"
         THEN [s EXCEPT !.outer_value.value = Put(@, Tail(path), p)]
         ELSE [s EXCEPT ![Head(path)] = Put(@, Tail(path), p)]

\* A promise of next() asked of the producer at path, to be settled by the
\* callback kind; a source's promise holds what it will resolve to.
Promise(path, kind, item) ==
    [at |-> path, k |-> kind, done |-> item.done, value |-> item.value]

NoItem == IteratorResult(FALSE, Undefined)

\* The program as a callback sees it: the stream, the promises not settled,
\* the array toArray() is filling, and whether toArray()'s promise resolved.
Running(s, pending, array, finished) ==
    [stream |-> s, promises |-> pending, array |-> array, finished |-> finished]

Top(c) == c.promises[Len(c.promises)]

SetTop(c, kind) == [c EXCEPT !.promises[Len(c.promises)].k = kind]

Pop(c) == [c EXCEPT !.promises = SubSeq(@, 1, Len(@) - 1)]

ProperPrefix(p, q) == Len(p) < Len(q) /\ SubSeq(q, 1, Len(p)) = p

\* A new promise takes its place before the promises it will wait for: those
\* asked of the producers upstream of its own that are still unsettled.
Push(c, promise) ==
    LET pending == c.promises
        others == {i \in 1..Len(pending) :
                      pending[i].k = "terminal" \/ ~ProperPrefix(promise.at, pending[i].at)}
        last == IF others = {} THEN 0 ELSE CHOOSE i \in others : \A j \in others : j <= i
    IN  [c EXCEPT !.promises = SubSeq(pending, 1, last) \o <<promise>>
                               \o SubSeq(pending, last + 1, Len(pending))]

\* A promise of next() asked of the producer at path has not settled.
Pending(c, path) ==
    \E i \in 1..Len(c.promises) : c.promises[i].k # "terminal" /\ c.promises[i].at = path

RECURSIVE IssueNext(_, _), Resume(_, _), Resolve(_, _)

\* forEach's execute that asks for two elements at a time.
ForEachExecuteAhead(c, item) ==
    IF item.done THEN [Pop(c) EXCEPT !.finished = TRUE]
    ELSE IssueNext(IssueNext([c EXCEPT !.array = Append(@, item.value)], <<>>), <<>>)

\* BaseAsyncStream.forEach, execute, with toArray's callback e => array.push(e).
ForEachExecute(c, item) ==
    IF item.done THEN [Pop(c) EXCEPT !.finished = TRUE]
    ELSE IssueNext([c EXCEPT !.array = Append(@, item.value)], <<>>)

\* The callback of FilterAsyncStream.next that, after an element that fails,
\* returns this.iterator.next(): the element after it goes untested.
FilterAsyncStreamThenOnce(c, item) ==
    LET path == Top(c).at
        self == At(c.stream, path)
        called == [self EXCEPT !.index = @ + 1, !.pulled = @ + 1,
                       !.calls = Append(@, Call(item.value, self.index, self.context))]
    IN  IF item.done THEN Resolve(c, item)
        ELSE IF CallPredicate(self.predicate, item.value, self.index, self.context)
             THEN Resolve([c EXCEPT !.stream = Put(@, path, called)], item)
             ELSE IssueNext(SetTop([c EXCEPT !.stream = Put(@, path, called)], "follow"),
                            path \o <<"iterator">>)

\* The callback FilterAsyncStream.next gives to then().
FilterAsyncStreamThen(c, item) ==
    LET path == Top(c).at
        self == At(c.stream, path)
        called == [self EXCEPT !.index = @ + 1,
                       !.calls = Append(@, Call(item.value, self.index, self.context))]
    IN  IF item.done THEN Resolve(c, item)
        ELSE IF CallPredicate(self.predicate, item.value, self.index, self.context)
             THEN Resolve([c EXCEPT !.stream = Put(@, path, called)], item)
             ELSE \* return this.next(): the promise follows the new one
                  IssueNext(SetTop([c EXCEPT !.stream = Put(@, path, called)], "follow"),
                            path)

\* The callback MappingAsyncStream.next gives to then().
MappingAsyncStreamThen(c, item) ==
    LET path == Top(c).at
        self == At(c.stream, path)
        called == [self EXCEPT !.index = @ + 1,
                       !.calls = Append(@, Call(item.value, self.index, self.context))]
    IN  IF item.done THEN Resolve(c, IteratorResult(TRUE, Bool(FALSE)))
        ELSE Resolve([c EXCEPT !.stream = Put(@, path, called)],
                     IteratorResult(FALSE, AsyncCallMapper(self.mapper, item.value,
                                                           self.index, self.context)))

\* The callback ConcatenatedAsyncStream.next gives to then().
ConcatenatedAsyncStreamThen(c, item) ==
    LET path == Top(c).at
        self == At(c.stream, path)
    IN  IF item.done
        THEN IssueNext(SetTop([c EXCEPT !.stream =
                                   Put(@, path, [self EXCEPT !.pulled2 = @ + 1])],
                              "follow"),
                       path \o <<"iterator2">>)
        ELSE Resolve(c, item)

\* The callback FlattenedAsyncStream.next gives to this.outer_value.then().
FlattenedAsyncStreamOuterThen(c, outer_value) ==
    IF outer_value.done THEN Resolve(c, IteratorResult(TRUE, Undefined))
    ELSE IssueNext(SetTop(c, "inner"), Top(c).at \o <<"inner">>)

\* The callback it gives to outer_value.value.next().then(): on an inner
\* stream that is finished, this.outer_value = this.outer.next() and then
\* return this.next().
FlattenedAsyncStreamInnerThen(c, item) ==
    IF item.done
    THEN IssueNext(IssueNext(SetTop(c, "follow"), Top(c).at \o <<"outer">>), Top(c).at)
    ELSE Resolve(c, item)

\* next() is called on the producer at path.
IssueNext(c, path) ==
    LET self == At(c.stream, path) IN
    CASE self.k = "AsyncStream"
            -> LET item == AsyncStreamNext(self) IN
               Push([c EXCEPT !.stream = Put(@, path, item.s)],
                    Promise(path, "source", item))
      [] self.k \in {"FilterAsyncStream", "MappingAsyncStream"}
            -> IssueNext(Push([c EXCEPT !.stream =
                                   Put(@, path, [self EXCEPT !.pulled = @ + 1])],
                              Promise(path, "then", NoItem)),
                         path \o <<"iterator">>)
      [] self.k = "ConcatenatedAsyncStream"
            -> IssueNext(Push([c EXCEPT !.stream =
                                   Put(@, path, [self EXCEPT !.pulled1 = @ + 1])],
                              Promise(path, "then", NoItem)),
                         path \o <<"iterator1">>)
      [] self.k = "FlattenedAsyncStream"
            -> IF Pending(c, path \o <<"outer">>)
               THEN Push(c, Promise(path, "outer", NoItem))
               ELSE Resume(Push(c, Promise(path, "outer", NoItem)), self.outer_value)

\* The promise the last promise waits for has resolved to item: the callback
\* of the last promise runs.
Resume(c, item) ==
    LET kind == Top(c).k
        self == IF kind = "terminal" THEN NoStream ELSE At(c.stream, Top(c).at)
    IN  CASE kind = "terminal" -> ForEachExecute(c, item)
          [] kind = "follow" -> Resolve(c, item)
          [] kind = "then" /\ self.k = "FilterAsyncStream" -> FilterAsyncStreamThen(c, item)
          [] kind = "then" /\ self.k = "MappingAsyncStream" -> MappingAsyncStreamThen(c, item)
          [] kind = "then" /\ self.k = "ConcatenatedAsyncStream"
                -> ConcatenatedAsyncStreamThen(c, item)
          [] kind = "outer" -> FlattenedAsyncStreamOuterThen(c, item)
          [] kind = "inner" -> FlattenedAsyncStreamInnerThen(c, item)

\* The last promise resolves to item.  What outer.next() resolves to is what
\* a flatten keeps as this.outer_value; whoever waits then runs.
Resolve(c, item) ==
    LET path == Top(c).at
        rest == Pop(c)
    IN  IF path # <<>> /\ path[Len(path)] = "outer"
        THEN LET owner == SubSeq(path, 1, Len(path) - 1)
                 kept == [rest EXCEPT !.stream =
                             Put(@, owner,
                                 [At(rest.stream, owner) EXCEPT !.outer_value =
                                     [done |-> item.done, value |-> item.value,
                                      thrown |-> "none"]])]
             IN  IF kept.promises # <<>> /\ Top(kept).k = "outer" /\ Top(kept).at = owner
                 THEN Resume(kept, item)
                 ELSE kept
        ELSE IF rest.promises = <<>> THEN rest ELSE Resume(rest, item)

\* The program between two callbacks, and after one.
Now == Running(stream, promises, IF pc = "draining" THEN result.a ELSE <<>>, FALSE)

After(c) ==
    /\ stream' = c.stream
    /\ promises' = c.promises
    /\ result' = IF pc' = "built" THEN result ELSE Arr(c.array)
    /\ UNCHANGED <<thrown, calls>>

\* flatten() in the asynchronous variant: the constructor asks the outer
\* stream for its first element and keeps the promise.
PromiseFlatten ==
    /\ CanChain
    /\ IsAsync(stream)
    /\ promises = <<>>
    /\ \A i \in 1..Len(Elements(stream)) : HasIterator(Elements(stream)[i])
    /\ LET made == [k |-> "FlattenedAsyncStream",
                    outer |-> MappingAsyncStream(stream, "AsyncStream.from", Undefined),
                    outer_value |-> Settled(Item(NoStream, FALSE, Undefined))]
       IN  /\ pc' = "built"
           /\ After(IssueNext(Running(made, <<>>, <<>>, FALSE), <<"outer">>))
    /\ ops' = Append(ops, Op("flatten", Undefined))

\* toArray(): forEach calls this.next() and gives execute to then().
PromiseToArray ==
    /\ pc = "built"
    /\ IsAsync(stream)
    /\ LET c == IssueNext(Running(stream,
                                  <<Promise(<<>>, "terminal", NoItem)>> \o promises,
                                  <<>>, FALSE),
                          <<>>)
       IN  /\ pc' = IF c.finished THEN "done" ELSE "draining"
           /\ After(c)
    /\ ops' = Append(ops, Op("toArray", Undefined))

\* The promise of a source resolves, after whatever delay, and the callbacks
\* that waited for it run.
Settle ==
    /\ pc \in {"built", "draining"}
    /\ promises # <<>>
    /\ Top(Now).k = "source"
    /\ LET c == Resolve(Now, IteratorResult(Top(Now).done, Top(Now).value))
       IN  /\ pc' = IF c.finished THEN "done" ELSE pc
           /\ After(c)
    /\ UNCHANGED ops

AsyncNext ==
    \/ FromAsync
    \/ Filter
    \/ Map
    \/ Concat
    \/ Slice
    \/ PromiseFlatten
    \/ PromiseToArray
    \/ Settle

\* Every promise of a source settles in the end.
AsyncSpec == Init /\ [][AsyncNext]_vars /\ WF_vars(Settle)

(***************************************************************************)
(* Properties.                                                             *)
(***************************************************************************)
LastOp == ops[Len(ops)]

\* The chain is Stream.from(array) followed by n more calls, the last one
\* a terminal that has returned.
SyncChain(n) ==
    /\ pc = "done"
    /\ Len(ops) = n + 1
    /\ ops[1].op = "Stream.from"
    /\ ops[1].arg.t = "array"

RECURSIVE ConcatAll(_)
ConcatAll(arrays) ==
    IF Len(arrays) = 0 THEN <<>> ELSE Head(arrays) \o ConcatAll(Tail(arrays))

\* C1: Stream.from(S).toArray() returns the elements of S, in the order of S.
FromToArrayClonesSource ==
    (SyncChain(1) /\ ops[2].op = "toArray") => result = ops[1].arg

FromToArrayClonesSourceWitness ==
    /\ SyncChain(1) /\ ops[2].op = "toArray"
    /\ result = Arr(<<Num(2), Num(1), Num(2)>>)

\* C2: Stream.from(S).filter(P).toArray() is the subsequence of S whose
\* elements satisfy P, in their order in S.
FilterKeepsMatchingInOrder ==
    (SyncChain(2) /\ ops[2].op = "filter" /\ ops[3].op = "toArray")
        => result = Arr(SelectSeq(ops[1].arg.a,
                                  LAMBDA e : CallPredicate(ops[2].arg, e, 0, Undefined)))

FilterKeepsMatchingInOrderWitness ==
    /\ SyncChain(2) /\ ops[2].op = "filter" /\ ops[3].op = "toArray"
    /\ ops[1].arg = Arr(<<Num(1), Num(1), Num(2)>>)
    /\ result = Arr(<<Num(2)>>)

\* C3: Stream.from(S).map(F).toArray() has the length of S and holds F applied
\* to each element of S (with the element's index), in order.
MapAppliesElementwise ==
    (SyncChain(2) /\ ops[2].op = "map" /\ ops[3].op = "toArray")
        => result = Arr([i \in 1..Len(ops[1].arg.a) |->
                            CallMapper(ops[2].arg, ops[1].arg.a[i], i - 1, Undefined)])

MapAppliesElementwiseWitness ==
    /\ SyncChain(2) /\ ops[2].op = "map" /\ ops[3].op = "toArray"
    /\ ops[1].arg = Arr(<<Num(2), Num(1)>>)
    /\ result = Arr(<<Arr(<<Num(0), Num(2)>>), Arr(<<Num(1), Num(1)>>)>>)

\* C4: Stream.from(A) with concat calls chained on it, each handed
\* Stream.from(B) or a concat nested in it, drains to A followed by the
\* arrays of the streams handed over, in order.
ConcatAppends ==
    (/\ pc = "done" /\ Len(ops) >= 3
     /\ ops[1].op = "Stream.from" /\ ops[1].arg.t = "array"
     /\ \A i \in 2..(Len(ops) - 1) : ops[i].op = "concat"
     /\ LastOp.op = "toArray")
        => result = Arr(ops[1].arg.a
                        \o ConcatAll([i \in 1..(Len(ops) - 2) |-> ConcatAll(ops[i + 1].arg)]))

ConcatAppendsWitness ==
    /\ SyncChain(2) /\ ops[2].op = "concat" /\ ops[3].op = "toArray"
    /\ ops[1].arg = Arr(<<Num(1)>>)
    /\ Len(ops[2].arg) = 2
    /\ result = Arr(<<Num(1), Num(2), Num(1), Num(2)>>)

\* C5 as claimed: Stream.from(outer).flatten().toArray() is the concatenation
\* of the inner arrays of outer, empty ones included at any position.
FlattenConcatenatesInner ==
    (/\ SyncChain(2) /\ ops[2].op = "flatten" /\ ops[3].op = "toArray"
     /\ \A i \in 1..Len(ops[1].arg.a) : ops[1].arg.a[i].t = "array")
        => result = Arr(ConcatAll([i \in 1..Len(ops[1].arg.a) |-> ops[1].arg.a[i].a]))

\* The elements of S at the indices i with begin <= i < end.
Window(S, begin, end) ==
    LET stop == IF end < Len(S) THEN end ELSE Len(S)
    IN  IF stop <= begin THEN <<>> ELSE [i \in 1..(stop - begin) |-> S[begin + i]]

\* C6 as claimed: for begin >= 0 and end >= 0, Stream.from(S).slice(begin, end)
\* raises nothing and drains to the elements of S at indices in [begin, end).
SliceTakesWindow ==
    (/\ Len(ops) >= 2 /\ ops[1].op = "Stream.from" /\ ops[1].arg.t = "array"
     /\ ops[2].op = "slice"
     /\ ops[2].arg.begin >= 0 /\ ops[2].arg.end.t = "number" /\ ops[2].arg.end.n >= 0)
        => /\ thrown = "none"
           /\ (Len(ops) = 3 /\ ops[3].op = "toArray")
                 => result = Arr(Window(ops[1].arg.a, ops[2].arg.begin, ops[2].arg.end.n))

\* C7: a slice call with a negative begin or a negative end raises a
\* RangeError and leaves the stream it was called on as it was: no producer
\* is made and no element is pulled.
NegativeSliceThrowsFirst ==
    [][(/\ Len(ops') = Len(ops) + 1
        /\ ops'[Len(ops')].op = "slice"
        /\ \/ ops'[Len(ops')].arg.begin < 0
           \/ ops'[Len(ops')].arg.end.t = "number" /\ ops'[Len(ops')].arg.end.n < 0)
          => (thrown' = "RangeError" /\ pc' = "thrown" /\ stream' = stream)]_vars

NegativeSliceThrowsFirstWitness ==
    /\ pc = "thrown" /\ thrown = "RangeError"
    /\ Len(ops) = 2 /\ ops[2].op = "slice"
    /\ ops[2].arg.begin = 1 /\ ops[2].arg.end = Num(-1)
    /\ stream.k = "AsyncStream" /\ Len(stream.items) = 2 /\ stream.pulls = 0

\* C8 as claimed: Stream.from(source) with a source that cannot be iterated
\* raises a TypeError and gives no stream.
FromRejectsNonIterable ==
    (Len(ops) >= 1 /\ ops[1].op = "Stream.from" /\ ops[1].arg.t # "array")
        => (thrown = "TypeError" /\ stream = NoStream)

\* C8 amended: Stream.from(source) with a source that cannot be iterated and
\* is neither null nor undefined raises nothing and gives a stream whose one
\* element is source; null and undefined raise a TypeError.
FromWrapsNonIterable ==
    (Len(ops) >= 1 /\ ops[1].op = "Stream.from" /\ ops[1].arg.t # "array")
        => IF ops[1].arg.t \in {"undefined", "null"}
           THEN thrown = "TypeError" /\ stream = NoStream /\ pc = "thrown"
           ELSE /\ Len(ops) = 1 => (thrown = "none" /\ pc = "built" /\ stream.k = "Stream")
                /\ (Len(ops) = 2 /\ ops[2].op = "toArray")
                      => (thrown = "none" /\ result = Arr(<<ops[1].arg>>))

FromWrapsNonIterableWitness ==
    /\ pc = "done" /\ Len(ops) = 2
    /\ ops[1].op = "Stream.from" /\ ops[1].arg = Obj
    /\ ops[2].op = "toArray" /\ result = Arr(<<Obj>>)

\* C9 as claimed: the pipeline of the README evaluates to '42, 56'.
ReadmeGives42And56 ==
    (Len(ops) = 1 /\ ops[1].op = "README") => result = Str("42, 56")

\* The invocations a short-circuiting terminal may make on the elements E:
\* one per element, in order, up to the first on which the predicate gives
\* the value that decides.
CallsUntil(E, predicate, decides) ==
    LET hits == {i \in 1..Len(E) : CallPredicate(predicate, E[i], i - 1, Undefined) = decides}
        last == IF hits = {} THEN Len(E) ELSE CHOOSE i \in hits : \A j \in hits : i <= j
    IN  [i \in 1..last |-> Call(E[i], i - 1, Undefined)]

\* C10: find, some, every and findIndex invoke the predicate on the elements
\* of the stream in order and on none after the first that satisfies it
\* (every: the first that falsifies it).
TerminalsShortCircuit ==
    [][(/\ pc = "built" /\ pc' = "done"
        /\ ops'[Len(ops')].op \in {"find", "some", "every", "findIndex"})
          => calls' = CallsUntil(Elements(stream), ops'[Len(ops')].arg,
                                 ops'[Len(ops')].op # "every")]_vars

TerminalsShortCircuitWitness ==
    /\ pc = "done" /\ Len(ops) = 2
    /\ ops[1].arg = Arr(<<Num(2), Num(1), Num(2)>>)
    /\ ops[2].op = "every"
    /\ Len(calls) = 2
    /\ result = Bool(FALSE)

\* The first element of E that satisfies the predicate, undefined if none does.
FirstMatch(E, predicate) ==
    LET hits == {i \in 1..Len(E) : CallPredicate(predicate, E[i], i - 1, Undefined)}
    IN  IF hits = {} THEN Undefined ELSE E[CHOOSE i \in hits : \A j \in hits : i <= j]

\* C11: find(pred) returns the first element of the stream, in stream order,
\* for which pred is true, and undefined when no element satisfies pred (an
\* empty stream included).
FindReturnsFirstMatch ==
    [][(pc = "built" /\ pc' = "done" /\ ops'[Len(ops')].op = "find")
          => result' = FirstMatch(Elements(stream), ops'[Len(ops')].arg)]_vars

FindReturnsFirstMatchWitness ==
    /\ SyncChain(1) /\ ops[2].op = "find"
    /\ ops[1].arg = Arr(<<Num(1), Num(2), Num(2)>>)
    /\ ops[2].arg = Pred("gt1", 0, 0)
    /\ result = Num(2) /\ Len(calls) = 2

\* The chain is Stream.from(array) or AsyncStream.from(array) followed by one
\* terminal that has returned.
FromThenTerminal(name) ==
    /\ pc = "done" /\ Len(ops) = 2
    /\ ops[1].op \in {"Stream.from", "AsyncStream.from"}
    /\ ops[1].arg.t = "array"
    /\ ops[2].op = name

\* C12 as claimed: some(pred) on the stream of an array returns true exactly
\* when pred holds for at least one element, whatever that element is.
SomeIffPredicateHoldsOnce ==
    FromThenTerminal("some")
        => result = Bool(\E i \in 1..Len(ops[1].arg.a) :
                            CallPredicate(ops[2].arg, ops[1].arg.a[i], i - 1, Undefined))

\* C13: every(pred) returns true exactly when pred holds for all elements of
\* the stream: true on an empty stream, false once an element falsifies pred.
EveryIffPredicateHoldsAlways ==
    [][(pc = "built" /\ pc' = "done" /\ ops'[Len(ops')].op = "every")
          => LET E == Elements(stream) IN
             result' = Bool(\A i \in 1..Len(E) :
                               CallPredicate(ops'[Len(ops')].arg, E[i], i - 1, Undefined))]_vars

EveryIffPredicateHoldsAlwaysWitness ==
    /\ SyncChain(1) /\ ops[2].op = "every"
    /\ ops[1].arg = Arr(<<>>)
    /\ result = Bool(TRUE) /\ calls = <<>>

\* The indices i >= fromIndex, counted from 0, at which E holds item.
Occurrences(E, item, fromIndex) ==
    {i \in 0..(Len(E) - 1) : i >= fromIndex /\ StrictEquals(E[i + 1], item)}

\* C14 as claimed: includes(item, from) on the stream of an array returns true
\* exactly when an element at an index >= from is strictly identical to item.
IncludesIffOccursFrom ==
    (FromThenTerminal("includes") /\ ops[2].arg.fromIndex >= 0)
        => result = Bool(Occurrences(ops[1].arg.a, ops[2].arg.item,
                                     ops[2].arg.fromIndex) # {})

\* C15: indexOf(item, from) returns the smallest index i >= from, counted from
\* the start of the stream, whose element is strictly identical to item, and
\* -1 when there is none.
IndexOfGivesFirstOccurrenceFrom ==
    [][(pc = "built" /\ pc' = "done" /\ ops'[Len(ops')].op = "indexOf")
          => LET hits == Occurrences(Elements(stream), ops'[Len(ops')].arg.item,
                                     ops'[Len(ops')].arg.fromIndex)
             IN  result' = IF hits = {} THEN Num(-1)
                           ELSE Num(CHOOSE i \in hits : \A j \in hits : i <= j)]_vars

\* The only occurrence lies before from.
IndexOfGivesFirstOccurrenceFromWitness ==
    /\ SyncChain(1) /\ ops[2].op = "indexOf"
    /\ ops[1].arg = Arr(<<Num(2), Num(1), Num(1)>>)
    /\ ops[2].arg = [item |-> Num(2), fromIndex |-> 1]
    /\ result = Num(-1)

\* An occurrence before from and one after it.
IndexOfSkipsEarlierOccurrence ==
    /\ SyncChain(1) /\ ops[2].op = "indexOf"
    /\ ops[1].arg = Arr(<<Num(2), Num(1), Num(2)>>)
    /\ ops[2].arg = [item |-> Num(2), fromIndex |-> 1]
    /\ result = Num(2)

\* The string representations of E[i..], with separator between neighbours.
RECURSIVE Joined(_, _, _)
Joined(E, i, separator) ==
    IF i > Len(E) THEN ""
    ELSE ToString(E[i]) \o (IF i < Len(E) THEN separator ELSE "")
                        \o Joined(E, i + 1, separator)

\* C16 as claimed: join(sep) on the stream of an array returns the string made
\* of the string representations of the elements in order with sep between
\* neighbours: the empty string for no element, the element's string for one.
JoinReturnsSeparatedString ==
    FromThenTerminal("join") => result = Str(Joined(ops[1].arg.a, 1, ops[2].arg))

\* The accumulator of a left fold from init after the first n elements of E.
RECURSIVE FoldLeft(_, _, _)
FoldLeft(E, n, init) ==
    IF n = 0 THEN init
    ELSE CallReducer("sum", FoldLeft(E, n - 1, init), E[n], n - 1, Context)

\* C17: reduce(fn, init, ctx) invokes fn(accumulator, element, index, ctx)
\* once per element, in stream order, with index 0, 1, 2, ... and the
\* accumulator of the invocation before (init for the first), and returns the
\* last accumulator: init itself on an empty stream.
ReduceFoldsLeft ==
    [][(pc = "built" /\ pc' = "done" /\ ops'[Len(ops')].op = "reduce")
          => LET E == Elements(stream)
                 init == ops'[Len(ops')].arg
             IN  /\ result' = FoldLeft(E, Len(E), init)
                 /\ calls' = [i \in 1..Len(E) |->
                                ReducerCall(FoldLeft(E, i - 1, init), E[i], i - 1,
                                            Context)]]_vars

ReduceFoldsLeftWitness ==
    /\ SyncChain(1) /\ ops[2].op = "reduce"
    /\ ops[1].arg = Arr(<<Num(1), Num(2), Num(2)>>)
    /\ ops[2].arg = Str("")
    /\ result = Str("122") /\ Len(calls) = 3
    /\ calls[3] = ReducerCall(Str("12"), Num(2), 2, Obj)

\* C18 as claimed: forEach(cb, ctx) on the stream of an array, synchronous or
\* asynchronous, invokes cb once per element, in order, as
\* cb(element, index, ctx) with index the zero-based position of the element.
ForEachCountsFromZero ==
    FromThenTerminal("forEach")
        => calls = [i \in 1..Len(ops[1].arg.a) |-> Call(ops[1].arg.a[i], i - 1, Context)]

\* A FlattenedStream is among the producers of s.
RECURSIVE Flattens(_)
Flattens(s) ==
    CASE s.k = "FlattenedStream" -> TRUE
      [] s.k \in {"FilterStream", "MappingStream", "FilterAsyncStream", "MappingAsyncStream"}
            -> Flattens(s.iterator)
      [] s.k \in {"ConcatenatedStream", "ConcatenatedAsyncStream"}
            -> Flattens(s.iterator1) \/ Flattens(s.iterator2)
      [] OTHER -> FALSE

\* The frame of shift() with no stream left out: what is left after it is
\* what the stream would have yielded after its first element.
ShiftTakesFirstAlways ==
    [][(pc = "built" /\ pc' = "shifted")
          => LET E == Elements(stream) IN
             Elements(stream') = IF E = <<>> THEN <<>> ELSE Tail(E)]_vars

ShiftOnExhausted ==
    /\ pc = "shifted" /\ Len(ops) = 3 /\ ops[2].op = "filter"
    /\ ops[1].arg = Arr(<<Num(1), Num(1)>>)
    /\ result = Undefined

\* The array is one of [key, value] pairs whose keys differ.
PairsWithDistinctKeys(S) ==
    /\ \A i \in 1..Len(S) : S[i].t = "array" /\ Len(S[i].a) = 2
    /\ \A i, j \in 1..Len(S) : i # j => S[i].a[1] # S[j].a[1]

\* The value a Map or an object holds under key; undefined for none.
Get(mapping, key) ==
    LET hits == {i \in 1..Len(mapping.a) : mapping.a[i].a[1] = key}
    IN  IF hits = {} THEN Undefined ELSE mapping.a[CHOOSE i \in hits : TRUE].a[2]

\* C20 as claimed: toMap() and toObject() on the stream of an array of
\* [k, v] pairs with distinct keys give a mapping that holds k -> v for every
\* pair and nothing else, toMap with the keys in stream order.
PairsBecomeMapping ==
    LET S == ops[1].arg.a IN
    /\ (FromThenTerminal("toMap") /\ PairsWithDistinctKeys(S))
          => (result.t = "Map" /\ result.a = S)
    /\ (FromThenTerminal("toObject") /\ PairsWithDistinctKeys(S))
          => /\ result.t = "object"
             /\ Len(result.a) = Len(S)
             /\ \A i \in 1..Len(S) : Get(result, PropertyKey(S[i].a[1])) = S[i].a[2]

\* C20 amended: as claimed for toMap(); for toObject() when the keys differ
\* as property names, that is after their conversion to strings.
PairsBecomeMappingByName ==
    LET S == ops[1].arg.a IN
    /\ (FromThenTerminal("toMap") /\ PairsWithDistinctKeys(S))
          => (result.t = "Map" /\ result.a = S)
    /\ (/\ FromThenTerminal("toObject") /\ PairsWithDistinctKeys(S)
        /\ \A i, j \in 1..Len(S) : i # j => PropertyKey(S[i].a[1]) # PropertyKey(S[j].a[1]))
          => /\ result.t = "object"
             /\ Len(result.a) = Len(S)
             /\ \A i \in 1..Len(S) : Get(result, PropertyKey(S[i].a[1])) = S[i].a[2]

PairsBecomeMappingByNameWitness ==
    /\ FromThenTerminal("toObject")
    /\ ops[1].arg = Arr(<<Arr(<<Num(1), Num(1)>>), Arr(<<Str("foo"), Num(2)>>)>>)
    /\ result.a = <<Arr(<<Str("1"), Num(1)>>), Arr(<<Str("foo"), Num(2)>>)>>

\* toMap() keeps 1 and '1' apart, in stream order.
MapKeepsNumberAndString ==
    /\ FromThenTerminal("toMap")
    /\ ops[1].arg = Arr(<<Arr(<<Str("1"), Num(1)>>), Arr(<<Num(1), Num(2)>>)>>)
    /\ result = MapSet(MapSet(EmptyMap, Str("1"), Num(1)), Num(1), Num(2))

(***************************************************************************)
(* Laziness of the intermediate operations.                                 *)
(***************************************************************************)
\* The calls of next() made so far on the sources below s.
RECURSIVE Pulls(_)
Pulls(s) ==
    CASE s.k \in {"Stream", "AsyncStream"} -> s.pulls
      [] s.k \in {"FilterStream", "MappingStream", "FilterAsyncStream", "MappingAsyncStream"}
            -> Pulls(s.iterator)
      [] s.k \in {"ConcatenatedStream", "ConcatenatedAsyncStream"}
            -> Pulls(s.iterator1) + Pulls(s.iterator2)
      [] s.k = "FlattenedStream" -> Pulls(s.outer) + Pulls(s.inner)
      [] s.k = "FlattenedAsyncStream"
            -> Pulls(s.outer)
               + (IF s.outer_value.thrown = "none" /\ ~s.outer_value.done
                  THEN Pulls(s.outer_value.value) ELSE 0)
      [] OTHER -> 0

\* C21: concat, entries (map), filter, flatten, map, push (concat) and slice
\* return a new stream without pulling: when the call returns, no source
\* below the new stream has had next() called.
IntermediatesPullNothing ==
    (pc = "built" /\ LastOp.op \in {"concat", "filter", "flatten", "map", "slice"})
       => Pulls(stream) = 0

\* The same for the operations other than flatten.
IntermediatesButFlattenPullNothing ==
    (pc = "built" /\ LastOp.op \in {"concat", "filter", "map", "slice"})
       => Pulls(stream) = 0

\* A flatten() that has returned has pulled its upstream once.
FlattenPullsAtCallTime ==
    (pc = "built" /\ LastOp.op = "flatten") => Pulls(stream) = 1

(***************************************************************************)
(* The context argument.                                                    *)
(***************************************************************************)
\* Every invocation the producers of kinds made of their callback was handed
\* the context the producer was built with.
RECURSIVE ContextsHandedOn(_, _)
ContextsHandedOn(s, kinds) ==
    CASE s.k \in {"FilterStream", "MappingStream", "FilterAsyncStream", "MappingAsyncStream"}
            -> /\ s.k \in kinds => \A i \in 1..Len(s.calls) : s.calls[i].context = s.context
               /\ ContextsHandedOn(s.iterator, kinds)
      [] s.k \in {"ConcatenatedStream", "ConcatenatedAsyncStream"}
            -> ContextsHandedOn(s.iterator1, kinds) /\ ContextsHandedOn(s.iterator2, kinds)
      [] s.k = "FlattenedStream" -> ContextsHandedOn(s.outer, kinds)
      [] OTHER -> TRUE

\* C22: in the synchronous variant the context supplied to filter and map is
\* handed unchanged to every invocation of the predicate and of the mapper.
SyncContextHandedOn ==
    ~IsAsync(stream) => ContextsHandedOn(stream, {"FilterStream", "MappingStream"})

\* The same for map alone, and for the asynchronous filter and map.
ContextHandedOnButSyncFilter ==
    ContextsHandedOn(stream, {"MappingStream", "FilterAsyncStream", "MappingAsyncStream"})

\* forEach and reduce hand their context to every invocation.
TerminalContextHandedOn ==
    (pc = "done" /\ LastOp.op \in {"forEach", "reduce"} /\ ~IsAsync(stream))
       => \A i \in 1..Len(calls) : calls[i].context = Context

(***************************************************************************)
(* Callbacks that throw.                                                    *)
(***************************************************************************)
\* The calls made are from(A) of an array A, a filter or a map with the
\* callback that throws on 2, and then only next().
PullsThroughThrower ==
    /\ Len(ops) >= 3
    /\ ops[1].op \in {"Stream.from", "AsyncStream.from"}
    /\ ops[1].arg.t = "array"
    /\ \/ ops[2].op = "filter" /\ ops[2].arg \in ThrowingPredicates
       \/ ops[2].op = "map" /\ ops[2].arg \in ThrowingMappers
    /\ \A i \in 3..Len(ops) : ops[i].op = "next"

\* C23: a predicate or mapper that throws on an element makes the pull that
\* reached the element throw (reject); the element is not tried again and
\* not delivered later: the n-th pull meets the n-th upstream element,
\* whether earlier pulls threw or not, and the callback has been invoked just
\* once per element met.
ThrowSurfacesFromItsPull ==
    PullsThroughThrower
       => LET A == ops[1].arg.a
              n == Len(ops) - 2
          IN  /\ IF n > Len(A)
                 THEN thrown = "none" /\ result.done
                 ELSE IF StrictEquals(A[n], Num(2))
                      THEN thrown = "Error"
                      ELSE thrown = "none" /\ result = IteratorResult(FALSE, A[n])
              /\ Len(stream.calls) = (IF n > Len(A) THEN Len(A) ELSE n)
              /\ \A i \in 1..Len(stream.calls) :
                    stream.calls[i].value = A[i] /\ stream.calls[i].index = i - 1

\* A pull threw on the element 2, and the pull after it delivered the
\* element that follows.
ThrowSurfacesFromItsPullWitness ==
    /\ PullsThroughThrower
    /\ Len(ops) = 4
    /\ StrictEquals(ops[1].arg.a[1], Num(2))
    /\ thrown = "none"
    /\ result = IteratorResult(FALSE, Num(1))

(***************************************************************************)
(* The two variants side by side.                                           *)
(***************************************************************************)
\* The stream the synchronous variant builds by the first n calls made.
RECURSIVE SyncReplay(_)
SyncReplay(n) ==
    LET arg == ops[n].arg IN
    CASE ops[n].op \in {"Stream.from", "AsyncStream.from"} -> from(arg).s
      [] ops[n].op = "filter" -> filter(SyncReplay(n - 1), arg, Context)
      [] ops[n].op = "map" -> map(SyncReplay(n - 1), arg, Context)
      [] ops[n].op = "concat"
            -> concat(SyncReplay(n - 1),
                      IF Len(arg) = 1 THEN from(Arr(arg[1])).s
                      ELSE concat(from(Arr(arg[1])).s, from(Arr(arg[2])).s))
      [] ops[n].op = "slice" -> slice(SyncReplay(n - 1), arg.begin, arg.end).s

\* AsyncStream.from of an array, then filter, map, concat and slice only,
\* then toArray().
AsyncPipelineToArray ==
    /\ pc = "done"
    /\ Len(ops) >= 2
    /\ ops[1].op = "AsyncStream.from"
    /\ \A i \in 2..(Len(ops) - 1) : ops[i].op \in {"filter", "map", "concat", "slice"}
    /\ LastOp.op = "toArray"

\* C24: whatever the delays of the source, the array an asynchronous
\* pipeline of filter, map, concat and slice resolves to is the array the
\* synchronous pipeline of the same calls on the same source returns,
\* elements in source order.
AsyncPipelineEqualsSync ==
    AsyncPipelineToArray => result = toArray(SyncReplay(Len(ops) - 1)).r

\* An asynchronous pipeline with a filter that drops an element and keeps
\* a later one.
AsyncPipelineEqualsSyncWitness ==
    /\ AsyncPipelineToArray
    /\ Len(ops) = 3
    /\ ops[2].op = "filter"
    /\ ops[1].arg.a = <<Num(1), Num(1), Num(2)>>
    /\ result = Arr(<<Num(2)>>)

(***************************************************************************)
(* Concatenation and its first stream.                                      *)
(***************************************************************************)
\* No array source that is the first stream of a concatenation below s has
\* been asked again after it reported done: it has had at most one call of
\* next() more than it has elements.
RECURSIVE FirstAskedOncePastEnd(_)
FirstAskedOncePastEnd(s) ==
    CASE s.k \in {"ConcatenatedStream", "ConcatenatedAsyncStream"}
            -> /\ s.iterator1.k \in {"Stream", "AsyncStream"}
                     => s.iterator1.pulls <= Len(s.iterator1.items) + 1
               /\ FirstAskedOncePastEnd(s.iterator1)
               /\ FirstAskedOncePastEnd(s.iterator2)
      [] s.k \in {"FilterStream", "MappingStream", "FilterAsyncStream", "MappingAsyncStream"}
            -> FirstAskedOncePastEnd(s.iterator)
      [] OTHER -> TRUE

\* C25: once the first stream of a concatenation has reported done, no later
\* pull calls its next() again.
ConcatLeavesFinishedFirstAlone == FirstAskedOncePastEnd(stream)

\* What a concatenation yields is still the first stream's elements and then
\* the second's, when the first is an array source.
ConcatOfArraysStillAppends ==
    (pc = "done" /\ Len(ops) = 3 /\ ops[2].op = "concat" /\ LastOp.op = "toArray"
       /\ ops[1].arg.t = "array")
       => result.a = ops[1].arg.a \o ConcatAll(ops[2].arg)

(***************************************************************************)
(* The indices of filter and map.                                           *)
(***************************************************************************)
\* s is an array source.
IsSource(s) == s.k \in {"Stream", "AsyncStream"}

\* The invocations logged are those of the first elements of items, in
\* order, numbered from 0.
NumbersElements(log, items) ==
    /\ Len(log) <= Len(items)
    /\ \A i \in 1..Len(log) : log[i].value = items[i] /\ log[i].index = i - 1

\* Every filter below s that sits on an array source has as its index the
\* number of elements the source has handed out: one per call of next() that
\* gave an element, none for a call that found the source finished.
RECURSIVE FilterIndexIsElementsPulled(_)
FilterIndexIsElementsPulled(s) ==
    CASE s.k \in {"FilterStream", "FilterAsyncStream"}
            -> /\ IsSource(s.iterator)
                     => /\ s.index = s.iterator.pos
                        /\ s.pulled = s.iterator.pulls
                        /\ Len(s.calls) = s.index
                        /\ NumbersElements(s.calls, s.iterator.items)
               /\ FilterIndexIsElementsPulled(s.iterator)
      [] s.k \in {"MappingStream", "MappingAsyncStream"}
            -> FilterIndexIsElementsPulled(s.iterator)
      [] s.k \in {"ConcatenatedStream", "ConcatenatedAsyncStream"}
            -> FilterIndexIsElementsPulled(s.iterator1)
               /\ FilterIndexIsElementsPulled(s.iterator2)
      [] s.k = "FlattenedStream" -> FilterIndexIsElementsPulled(s.outer)
      [] s.k = "FlattenedAsyncStream" -> FilterIndexIsElementsPulled(s.outer)
      [] OTHER -> TRUE

\* C26: the index a filter hands to its predicate is the zero-based count of
\* the upstream elements pulled so far; it grows by one with every upstream
\* pull that gives an element, whatever the predicate answers, and not with
\* a pull that finds the upstream finished.
FilterIndexCountsUpstream == FilterIndexIsElementsPulled(stream)

\* A filter that rejected its only element and then found its upstream
\* finished twice: by shift() and by the toArray() after it.
FilterIndexCountsUpstreamWitness ==
    /\ pc = "done"
    /\ stream.k \in {"FilterStream", "FilterAsyncStream"}
    /\ stream.predicate = Pred("even", 0, 0)
    /\ IsSource(stream.iterator)
    /\ stream.iterator.items = <<Num(1)>>
    /\ stream.index = 1
    /\ stream.iterator.pulls = 3

\* The calls made are from(A) of an array A, one map, and then only next().
PullsThroughMap ==
    /\ Len(ops) >= 3
    /\ ops[1].op \in {"Stream.from", "AsyncStream.from"}
    /\ ops[1].arg.t = "array"
    /\ ops[2].op = "map"
    /\ \A i \in 3..Len(ops) : ops[i].op = "next"

\* C27: every pull on a mapping stream pulls its upstream exactly once; when
\* that gives a value the mapper is invoked exactly once, with the value, the
\* index before its increment and the context; when the upstream is finished
\* the mapper is not invoked and the index stays.
MapPullsUpstreamOnce ==
    PullsThroughMap
       => LET A == ops[1].arg.a
              n == Len(ops) - 2
              met == IF n > Len(A) THEN Len(A) ELSE n
          IN  /\ stream.pulled = n
              /\ stream.iterator.pulls = n
              /\ stream.index = met
              /\ stream.calls = [i \in 1..met |-> Call(A[i], i - 1, Context)]
              /\ n > Len(A) => thrown = "none" /\ result.done
              /\ (n <= Len(A) /\ thrown = "none")
                    => result = IteratorResult(
                                   FALSE, CallMapper(ops[2].arg, A[n], n - 1, Context))

\* A mapping stream pulled three times over two elements: two invocations,
\* then a pull that found the upstream finished.
MapPullsUpstreamOnceWitness ==
    /\ PullsThroughMap
    /\ pc = "drained"
    /\ Len(ops[1].arg.a) = 2
    /\ stream.pulled = 3
    /\ stream.index = 2

(***************************************************************************)
(* The asynchronous flatten.                                                *)
(***************************************************************************)
\* AsyncStream.from(A) of an array A of arrays, flatten(), toArray().
AsyncFlattenToArray ==
    /\ pc = "done"
    /\ Len(ops) = 3
    /\ ops[1].op = "AsyncStream.from"
    /\ ops[2].op = "flatten"
    /\ ops[3].op = "toArray"

\* C28: the asynchronous flatten yields the elements of all the inner
\* arrays, in order, wherever the empty ones are; when it reports done the
\* outer stream has reported done, every outer element having been taken.
AsyncFlattenConcatenatesInner ==
    AsyncFlattenToArray
       => LET A == ops[1].arg.a IN
          /\ result = Arr(ConcatAll([i \in 1..Len(A) |-> A[i].a]))
          /\ stream.outer_value.done
          /\ stream.outer.iterator.pos = Len(A)
          /\ stream.outer.iterator.pulls = Len(A) + 1

\* Two empty inner arrays, one after the other, before one with elements.
AsyncFlattenConcatenatesInnerWitness ==
    /\ AsyncFlattenToArray
    /\ ops[1].arg.a = <<Arr(<<>>), Arr(<<>>), Arr(<<Num(1), Num(2)>>)>>
    /\ result = Arr(<<Num(1), Num(2)>>)

(***************************************************************************)
(* What every, find and findIndex leave of the stream.                      *)
(***************************************************************************)
\* from(A) of an array A, a terminal among names that stopped at an element
\* on which its predicate answered answer, then one next().  The terminal's
\* invocations are in calls: it stopped at element Len(calls).
StoppedThenPulled(names, answer) ==
    /\ Len(ops) = 3
    /\ ops[1].op \in {"Stream.from", "AsyncStream.from"}
    /\ ops[1].arg.t = "array"
    /\ ops[2].op \in names
    /\ ops[3].op = "next"
    /\ Len(calls) >= 1
    /\ CallPredicate(ops[2].arg, calls[Len(calls)].value, calls[Len(calls)].index,
                     Undefined) = answer

\* The pull after a terminal that stopped at element k yields element k + 1,
\* or reports done when k was the last.
YieldsElementAfter(k) ==
    LET A == ops[1].arg.a IN
    IF k < Len(A) THEN result = IteratorResult(FALSE, A[k + 1]) ELSE result.done

\* C30: after every() has returned false on element k, and after find() or
\* findIndex() has returned on a match at element k, the next pull on the
\* stream yields element k + 1.
StopLeavesFollowingElement ==
    /\ StoppedThenPulled({"every"}, FALSE) => YieldsElementAfter(Len(calls))
    /\ StoppedThenPulled({"find", "findIndex"}, TRUE) => YieldsElementAfter(Len(calls))

\* The same without the synchronous every.
StopLeavesFollowingElementButSyncEvery ==
    /\ (StoppedThenPulled({"every"}, FALSE) /\ IsAsync(stream))
          => YieldsElementAfter(Len(calls))
    /\ StoppedThenPulled({"find", "findIndex"}, TRUE) => YieldsElementAfter(Len(calls))

\* After the synchronous every() has returned false on element k, the next
\* pull yields element k + 2: every() has taken element k + 1 already.
SyncEveryTakesOneMore ==
    (StoppedThenPulled({"every"}, FALSE) /\ ~IsAsync(stream))
       => YieldsElementAfter(Len(calls) + 1)

(***************************************************************************)
(* One pull at a time.                                                      *)
(***************************************************************************)
\* Promises i and j of next(), i the earlier, were asked of the same
\* producer and neither has settled.
SameProducer(i, j) ==
    /\ i < j
    /\ promises[i].k # "terminal"
    /\ promises[j].k # "terminal"
    /\ promises[i].at = promises[j].at

\* C29 as stated: while toArray() drains the pipeline, no producer has
\* next() called while the promise of its previous next() is unresolved.
OnePullInFlight ==
    \A i, j \in 1..Len(promises) : ~SameProducer(i, j)

\* C29: while toArray() drains the pipeline, a producer has next() called
\* while the promise of its previous next() is unresolved only by itself,
\* from the callback that settles that promise and as the callback's last
\* act (a filter after an element it rejects, a flatten after an inner
\* stream that is finished): the earlier promise then just follows the new
\* one.  A source never has two unsettled promises, and no producer is asked
\* by its consumer before its previous promise has settled.
OnePullInFlightButOwnRetry ==
    /\ \A i, j \in 1..Len(promises) : SameProducer(i, j) => promises[i].k = "follow"
    /\ Cardinality({i \in 1..Len(promises) : promises[i].k = "source"}) <= 1

\* A filter that rejected two elements in a row waits for its source: three
\* of its promises are unsettled, the first two following the third.
OnePullInFlightButOwnRetryWitness ==
    /\ pc = "draining"
    /\ stream.k = "FilterAsyncStream"
    /\ Len(promises) = 5
    /\ promises[2].k = "follow"
    /\ promises[3].k = "follow"
    /\ promises[4].k = "then"
    /\ promises[5].k = "source"

\* The promise-level run and the run that takes a promise for what it
\* settles with end with the same array: flatten included.
PromisesAgree ==
    (pc = "done" /\ Len(ops) = 3 /\ ops[2].op = "flatten")
       => result = Arr(ConcatAll([i \in 1..Len(ops[1].arg.a) |-> ops[1].arg.a[i].a]))

====
